---- MODULE Spec2Model ----
(***************************************************************************)
(* A model of the gofac dependency-injection container (src/gofac.go):     *)
(* the registration store, the root resolver Container.resolve, the scope  *)
(* resolver Scope.resolve, their caches, locks and one-shot guards.        *)
(*                                                                         *)
(* A resolve is a recursive Go call on the caller's goroutine.  It is      *)
(* modelled as a stack of frames per thread; one action is one critical    *)
(* section (a map read under RLock, a cache write under Lock), one         *)
(* unlocked access to shared memory, or one factory invocation.  Steps     *)
(* that touch only the goroutine's own data (the cycle tracker, error      *)
(* wrapping, returning to the caller) are folded into the step before.     *)
(***************************************************************************)
EXTENDS Integers, Sequences, FiniteSets, TLC

(***************************************************************************)
(* Bounds of the model.                                                    *)
(***************************************************************************)
NumThreads == 2
MaxScopes == 2
MaxBuilt == 3
MaxResets == 1
MaxMix == 7

Threads == 1..NumThreads
ScopeIds == 1..MaxScopes

(***************************************************************************)
(* Type handles (reflect.Type).  A, B and C stand for pointer-to-struct    *)
(* service types, SA for []A, MA for map[string]A and I for an interface   *)
(* type that A, and only A, implements.                                    *)
(***************************************************************************)
Types == {"A", "B", "C", "SA", "MA", "I"}

Kind(T) ==
  CASE T = "SA" -> "slice"
    [] T = "MA" -> "map"
    [] T = "I" -> "iface"
    [] OTHER -> "ptr"

Elem(T) == "A"

Implements(impl, iface) == iface = "I" /\ impl = "A"

AssignableTo(x, y) == x = y \/ (Kind(y) = "iface" /\ Implements(x, y))

(***************************************************************************)
(* Lifetimes (src/enums.go) and the error values (src/errors.go)      .    *)
(* An error is the sequence of its wrappings, the sentinel innermost       *)
(* (last); fmt.Errorf("... %w") puts one more element in front.            *)
(***************************************************************************)
Transient == "Transient"
Singleton == "Singleton"
Scoped == "Scoped"
Lifetimes == {Transient, Singleton, Scoped}

ErrNotFunc == "ErrNotFunc"
ErrNoReturn == "ErrNoReturn"
ErrRegisterDuplicate == "ErrRegisterDuplicate"
ErrServiceNotRegistered == "ErrServiceNotRegistered"
ErrNotConcreteType == "ErrNotConcreteType"
ErrResolveCircularDependency == "ErrResolveCircularDependency"
ErrInvalidInterfaceType == "ErrInvalidInterfaceType"
ErrScopedOnRootContainer == "ErrScopedOnRootContainer"
ErrTransientInstance == "ErrTransientInstance"
ErrNilInstance == "ErrNilInstance"
\* fmt.Errorf texts that wrap no sentinel
ErrText == "errorString"

NoErr == <<>>
Sentinel(e) == <<e>>
\* (a message formatted with %v: the text of e, its identity lost)
WrapOpaque(text, e) == <<text>>

Wrap(text, e) == <<text>> \o e
\* errors.Is(e, target): the chain of %w wrappings ends in the sentinel
ErrorsIs(e, target) == Len(e) > 0 /\ e[Len(e)] = target

(***************************************************************************)
(* Constructors offered to Register: their reflected signatures.           *)
(***************************************************************************)
Ctors == {"NewA", "NewAB", "NewB", "NewBA", "NewC", "NewCS", "NewCM", "NewMA", "NewI",
          "NewTwo", "NotFunc"}

IsFunc(c) == c # "NotFunc"

CtorOut(c) ==
  CASE c \in {"NewA", "NewAB"} -> <<"A">>
    [] c \in {"NewB", "NewBA"} -> <<"B">>
    [] c \in {"NewC", "NewCS", "NewCM"} -> <<"C">>
    [] c = "NewMA" -> <<"MA">>
    [] c = "NewI" -> <<"I">>
    [] c = "NewTwo" -> <<"A", "B">>
    [] OTHER -> <<>>

CtorIn(c) ==
  CASE c = "NewAB" -> <<"B">>
    [] c = "NewBA" -> <<"A">>
    [] c = "NewC" -> <<"A", "B">>
    [] c = "NewCS" -> <<"SA">>
    [] c = "NewCM" -> <<"MA">>
    [] OTHER -> <<>>

(***************************************************************************)
(* Instances.  An instance is identified by a number: 0 is the invalid     *)
(* reflect.Value (or a nil `any`), 1..NumPre are the pre-built values the  *)
(* caller hands to RegisterInstance, larger numbers are made by factories: *)
(* NumPre + k is the k-th factory result (built[k]).                       *)
(***************************************************************************)
NumPre == 4
Nil == 0
PreVals == 1..NumPre
\* the dynamic type of a pre-built value: one []A value, the others *A values
TypeOfVal(v) == IF v = 3 THEN "SA" ELSE "A"

\* A torn copy of a reflect.Value read while another goroutine writes it.
Torn == -1

(***************************************************************************)
(* ServiceDef (src/gofac.go:10-20).  `once` is the sync.Once guarding the  *)
(* singleton slot; `writing` is the value a goroutine is copying into      *)
(* `instance` at this moment (0: nobody writes).                           *)
(***************************************************************************)
NoDef ==
  [reg |-> FALSE, implType |-> "none", scope |-> "none", instance |-> Nil,
   ctor |-> "none", once |-> "new", writing |-> Nil, isInstance |-> FALSE]

CtorDef(c, implType, scope) ==
  [reg |-> TRUE, implType |-> implType, scope |-> scope, instance |-> Nil,
   ctor |-> c, once |-> "new", writing |-> Nil, isInstance |-> FALSE]

InstanceDef(v, implType, scope) ==
  [reg |-> TRUE, implType |-> implType, scope |-> scope, instance |-> v,
   ctor |-> "none", once |-> "new", writing |-> Nil, isInstance |-> TRUE]

EmptyServices == [T \in Types |-> NoDef]

Names == {"n1", "n2"}
EmptyNamed == [n \in Names |-> [T \in Types |-> NoDef]]

\* the interfaceType argument: none, a nil pointer to I, a nil pointer to A,
\* or a value that is no pointer
NoTarget == "nil"
Targets == {NoTarget, "I", "A", "nonptr"}

VARIABLES
  defs,        \* defs[g]: the services map made by the g-th Reset (0: NewContainer)
  gen,         \* which of them Container.services points to
  namedServices,
  nScopes,     \* scopes created so far by NewScope
  scopedInst,  \* scopedInst[s][T]: Scope.scopedInst
  built,       \* the factory invocations so far, in order
  muW,         \* the thread holding Container.mu exclusively across steps, or 0
  stack,       \* stack[t]: the frames of thread t's running resolve
  track,       \* track[t]: the cycle tracker of thread t's running resolve
  req,         \* req[t]: thread t's latest Resolve call and, once it returned, its result
  last         \* outcome of the latest registration call

vars == <<defs, gen, namedServices, nScopes, scopedInst, built, muW, stack,
          track, req, last>>

services == defs[gen]

(***************************************************************************)
(* Registration (src/gofac.go:47-305).  Each operator is the whole body of *)
(* the Go function: it yields the error returned and the table afterwards. *)
(***************************************************************************)
IsTypeCompatible(implType, targetType) ==
  \* the universe has no numeric types and no value/pointer pairs: every
  \* branch of isTypeCompatible reduces to assignability
  AssignableTo(implType, targetType)

\* the service type a registration is stored under; err is NoErr on success
ServiceKey(implType, interfaceType) ==
  IF interfaceType = NoTarget THEN [err |-> NoErr, key |-> implType]
  ELSE IF interfaceType = "nonptr"
    THEN [err |-> Sentinel(ErrInvalidInterfaceType), key |-> "none"]
  ELSE IF Kind(interfaceType) = "iface"
    THEN IF Implements(implType, interfaceType)
           THEN [err |-> NoErr, key |-> interfaceType]
           ELSE [err |-> Sentinel(ErrText), key |-> "none"]
  ELSE IF IsTypeCompatible(implType, interfaceType)
    THEN [err |-> NoErr, key |-> interfaceType]
    ELSE [err |-> Sentinel(ErrText), key |-> "none"]

Outcome(err, key, tab) == [err |-> err, key |-> key, tab |-> tab]

\* register as it would be without its duplicate check: the later call wins
registerNoDupCheck(tab, ctor, interfaceType, scope) ==
  LET k == ServiceKey(CtorOut(ctor)[1], interfaceType)
  IN IF ~IsFunc(ctor) THEN Outcome(Sentinel(ErrNotFunc), "none", tab)
     ELSE IF Len(CtorOut(ctor)) # 1
       THEN Outcome(Wrap(ErrText, Sentinel(ErrNoReturn)), "none", tab)
     ELSE IF Kind(CtorOut(ctor)[1]) = "iface"
       THEN Outcome(Wrap(ErrText, Sentinel(ErrNotConcreteType)), "none", tab)
     ELSE IF k.err # NoErr THEN Outcome(k.err, "none", tab)
     ELSE Outcome(NoErr, k.key,
                  [tab EXCEPT ![k.key] = CtorDef(ctor, CtorOut(ctor)[1], scope)])

register(tab, ctor, interfaceType, scope) ==
  LET k == ServiceKey(CtorOut(ctor)[1], interfaceType)
  IN IF ~IsFunc(ctor) THEN Outcome(Sentinel(ErrNotFunc), "none", tab)
     ELSE IF Len(CtorOut(ctor)) # 1
       THEN Outcome(Wrap(ErrText, Sentinel(ErrNoReturn)), "none", tab)
     ELSE IF Kind(CtorOut(ctor)[1]) = "iface"
       THEN Outcome(Wrap(ErrText, Sentinel(ErrNotConcreteType)), "none", tab)
     ELSE IF k.err # NoErr THEN Outcome(k.err, "none", tab)
     ELSE IF tab[k.key].reg
       THEN Outcome(Wrap(ErrText, Sentinel(ErrRegisterDuplicate)), k.key, tab)
     ELSE Outcome(NoErr, k.key,
                  [tab EXCEPT ![k.key] = CtorDef(ctor, CtorOut(ctor)[1], scope)])

\* registerInstance as it would be with the nil check ahead of the Transient check
registerInstanceNilFirst(tab, instance, interfaceType, scope) ==
  LET k == ServiceKey(TypeOfVal(instance), interfaceType)
  IN IF instance = Nil THEN Outcome(Sentinel(ErrNilInstance), "none", tab)
     ELSE IF scope = Transient
       THEN Outcome(Sentinel(ErrTransientInstance), "none", tab)
     ELSE IF k.err # NoErr THEN Outcome(k.err, "none", tab)
     ELSE IF tab[k.key].reg
       THEN Outcome(Wrap(ErrText, Sentinel(ErrRegisterDuplicate)), k.key, tab)
     ELSE Outcome(NoErr, k.key,
                  [tab EXCEPT ![k.key] =
                     InstanceDef(instance, TypeOfVal(instance), scope)])

registerInstance(tab, instance, interfaceType, scope) ==
  LET k == ServiceKey(TypeOfVal(instance), interfaceType)
  IN IF scope = Transient
       THEN Outcome(Sentinel(ErrTransientInstance), "none", tab)
     ELSE IF instance = Nil THEN Outcome(Sentinel(ErrNilInstance), "none", tab)
     ELSE IF k.err # NoErr THEN Outcome(k.err, "none", tab)
     ELSE IF tab[k.key].reg
       THEN Outcome(Wrap(ErrText, Sentinel(ErrRegisterDuplicate)), k.key, tab)
     ELSE Outcome(NoErr, k.key,
                  [tab EXCEPT ![k.key] =
                     InstanceDef(instance, TypeOfVal(instance), scope)])

\* here tab is the whole named table; a missing inner map reads as all-NoDef
registerInstanceNamed(tab, name, instance, interfaceType, scope) ==
  LET k == ServiceKey(TypeOfVal(instance), interfaceType)
  IN IF scope = Transient
       THEN Outcome(Sentinel(ErrTransientInstance), "none", tab)
     ELSE IF instance = Nil THEN Outcome(Sentinel(ErrNilInstance), "none", tab)
     ELSE IF name = "" THEN Outcome(Sentinel(ErrText), "none", tab)
     ELSE IF k.err # NoErr THEN Outcome(k.err, "none", tab)
     ELSE IF tab[name][k.key].reg
       THEN Outcome(Wrap(ErrText, Sentinel(ErrRegisterDuplicate)), k.key, tab)
     ELSE Outcome(NoErr, k.key,
                  [tab EXCEPT ![name][k.key] =
                     InstanceDef(instance, TypeOfVal(instance), scope)])

(***************************************************************************)
(* Values handed to factories: an object, an auto-collected slice or an    *)
(* auto-collected map.  elems lists <<name, instance>>; a slice element    *)
(* carries the name "" (a Go slice keeps no names).                        *)
(***************************************************************************)
Obj(id) == [k |-> "obj", id |-> id, elems |-> <<>>]
SliceVal(es) == [k |-> "slice", id |-> Nil, elems |-> es]
\* (a map whose entries all went under one key)
MapValOneKey(es) ==
  [k |-> "map", id |-> Nil, elems |-> IF es = <<>> THEN es ELSE <<es[1]>>]

MapVal(es) == [k |-> "map", id |-> Nil, elems |-> es]

IdOf(n) == NumPre + n

(***************************************************************************)
(* One stack frame: an activation of Container.resolve (req.sc = 0) or of  *)
(* Scope.resolve (req.sc = the scope).  g and svc name the *ServiceDef the *)
(* activation holds; i is the parameter index of the loop, args the values *)
(* resolved so far, acc the slice under assembly, val the factory result.  *)
(***************************************************************************)
Frame(svc, g, pc) ==
  [svc |-> svc, g |-> g, pc |-> pc, i |-> 1, args |-> <<>>, acc |-> <<>>,
   val |-> Nil]

Top(stk) == stk[Len(stk)]
Pop(stk) == SubSeq(stk, 1, Len(stk) - 1)
SetTop(stk, f) == [stk EXCEPT ![Len(stk)] = f]

Res(val, err) == [val |-> val, err |-> err]

\* where the loop over paramTypes stands after i was set: next parameter or the call
LoopPc(ctor, i) == IF i > Len(CtorIn(ctor)) THEN "call" ELSE "param"

\* a frame goes on with its next parameter after the current one got value v
Advance(f, ctor, v) ==
  [f EXCEPT !.args = Append(@, v), !.i = @ + 1, !.acc = <<>>,
            !.pc = LoopPc(ctor, f.i + 1)]

(***************************************************************************)
(* A callee handed `res` to the frames in stk.  The caller either takes    *)
(* the value and goes on, swallows the error (the default element of an    *)
(* auto-collected slice, gofac.go:467-470) or returns the error wrapped,   *)
(* which runs its deferred delete(track, svcType) and reaches its own      *)
(* caller in turn.  done: the outermost call returned.                     *)
(***************************************************************************)
\* (no caller drops an error)
SwallowsNothing(pc) == FALSE
\* (every caller drops the callee's error and goes on with a nil value)
SwallowsAll(pc) == TRUE

\* the waiting callers that drop the callee's error: `if err == nil { append }`
Swallows(pc) == pc = "welem"

RECURSIVE Deliver(_, _, _, _)
Deliver(D, stk, trk, res) ==
  IF stk = <<>> THEN [stk |-> stk, trk |-> trk, done |-> TRUE, res |-> res]
  ELSE LET f == Top(stk)
           ctor == D[f.g][f.svc].ctor
       IN IF res.err # NoErr /\ ~Swallows(f.pc)
            THEN Deliver(D, Pop(stk), trk \ {f.svc},
                         Res(Nil, Wrap(CtorIn(ctor)[f.i], res.err)))
          ELSE IF f.pc = "welem"
            THEN [stk |-> SetTop(stk, [f EXCEPT !.pc = "named",
                                        !.acc = IF res.err = NoErr
                                                  THEN <<<<"", res.val>>>>
                                                  ELSE <<>>]),
                  trk |-> trk, done |-> FALSE, res |-> res]
          ELSE [stk |-> SetTop(stk, Advance(f, ctor, Obj(res.val))),
                trk |-> trk, done |-> FALSE, res |-> res]

\* (a return whose deferred delete does not run)
ReturnKeepsTrack(D, stk, trk, res) == Deliver(D, Pop(stk), trk, res)

\* the top frame returns res: its deferred delete runs, its caller gets res
Return(D, stk, trk, res) == Deliver(D, Pop(stk), trk \ {Top(stk).svc}, res)

\* the frame's next step once its slot or cache read missed
Miss(D, stk, trk) ==
  LET f == Top(stk)
  IN [stk |-> SetTop(stk, [f EXCEPT !.pc = LoopPc(D[f.g][f.svc].ctor, 1)]),
      trk |-> trk, done |-> FALSE, res |-> Res(Nil, NoErr)]

(***************************************************************************)
(* The head of resolve(svcType, track), up to its first access to shared   *)
(* memory after the map read: Container.resolve gofac.go:396-420,          *)
(* Scope.resolve gofac.go:574-610.  stk holds the callers (the top one     *)
(* waiting), sc is 0 on the root.                                          *)
(***************************************************************************)
\* (a lookup that falls back on a binding stored under some name)
serviceDefOrNamed(D, g, svc) ==
  IF ~D[g][svc].reg /\ \E n \in Names : namedServices[n][svc].reg
    THEN namedServices[CHOOSE n \in Names : namedServices[n][svc].reg][svc]
    ELSE D[g][svc]

\* serviceDef, exists := c.services[serviceType]: the default table only
serviceDef(D, g, svc) == D[g][svc]

\* the head as it would be without the root's check for Scoped
EnterNoScopedCheck(D, g, stk, trk, svc, sc) ==
  LET d == D[g][svc]
  IN IF ~d.reg
       THEN Deliver(D, stk, trk, Res(Nil, Wrap(ErrText, Sentinel(ErrServiceNotRegistered))))
     ELSE IF svc \in trk
       THEN Deliver(D, stk, trk, Res(Nil, Wrap(ErrText, Sentinel(ErrResolveCircularDependency))))
     ELSE IF d.isInstance /\ (sc = 0 \/ d.scope = Singleton)
       THEN Deliver(D, stk, trk, Res(d.instance, NoErr))
     ELSE IF d.isInstance /\ d.scope = Scoped
       THEN [stk |-> Append(stk, Frame(svc, g, "icheck")), trk |-> trk \cup {svc},
             done |-> FALSE, res |-> Res(Nil, NoErr)]
     ELSE IF d.scope = Transient
       THEN Miss(D, Append(stk, Frame(svc, g, "check")), trk \cup {svc})
     ELSE [stk |-> Append(stk, Frame(svc, g, "check")), trk |-> trk \cup {svc},
           done |-> FALSE, res |-> Res(Nil, NoErr)]

\* (a scope resolver that does not know pre-built bindings)
EnterInstanceOnRootOnly(D, g, stk, trk, svc, sc) ==
  LET d == D[g][svc]
  IN IF ~d.reg \/ (sc # 0 /\ d.isInstance)
       THEN Deliver(D, stk, trk, Res(Nil, Wrap(ErrText, Sentinel(ErrServiceNotRegistered))))
     ELSE IF svc \in trk
       THEN Deliver(D, stk, trk, Res(Nil, Wrap(ErrText, Sentinel(ErrResolveCircularDependency))))
     ELSE IF sc = 0 /\ d.scope = Scoped
       THEN Deliver(D, stk, trk, Res(Nil, Sentinel(ErrScopedOnRootContainer)))
     ELSE IF d.isInstance
       THEN Deliver(D, stk, trk, Res(d.instance, NoErr))
     ELSE IF d.scope = Transient
       THEN Miss(D, Append(stk, Frame(svc, g, "check")), trk \cup {svc})
     ELSE [stk |-> Append(stk, Frame(svc, g, "check")), trk |-> trk \cup {svc},
           done |-> FALSE, res |-> Res(Nil, NoErr)]

Enter(D, g, stk, trk, svc, sc) ==
  LET d == serviceDef(D, g, svc)
  IN IF ~d.reg
       THEN Deliver(D, stk, trk, Res(Nil, Wrap(ErrText, Sentinel(ErrServiceNotRegistered))))
     ELSE IF svc \in trk
       THEN Deliver(D, stk, trk, Res(Nil, Wrap(ErrText, Sentinel(ErrResolveCircularDependency))))
     ELSE IF sc = 0 /\ d.scope = Scoped
       THEN Deliver(D, stk, trk, Res(Nil, Sentinel(ErrScopedOnRootContainer)))
     ELSE IF d.isInstance /\ (sc = 0 \/ d.scope = Singleton)
       THEN Deliver(D, stk, trk, Res(d.instance, NoErr))
     ELSE IF d.isInstance /\ d.scope = Scoped
       THEN [stk |-> Append(stk, Frame(svc, g, "icheck")), trk |-> trk \cup {svc},
             done |-> FALSE, res |-> Res(Nil, NoErr)]
     ELSE IF d.scope = Transient
       THEN Miss(D, Append(stk, Frame(svc, g, "check")), trk \cup {svc})
     ELSE [stk |-> Append(stk, Frame(svc, g, "check")), trk |-> trk \cup {svc},
           done |-> FALSE, res |-> Res(Nil, NoErr)]

(***************************************************************************)
(* State after NewContainer() (gofac.go:37-42): empty tables, no scope,    *)
(* nothing built, every thread idle.                                       *)
(***************************************************************************)
\* the latest registration call (its arguments, the error it returned and the
\* key it stored under), until some other call is made
Called(op, ctor, instance, interfaceType, name, scope, o) ==
  [op |-> op, ctor |-> ctor, instance |-> instance, target |-> interfaceType,
   name |-> name, scope |-> scope, err |-> o.err, key |-> o.key]
NoLast ==
  Called("none", "none", Nil, NoTarget, "", "none", [err |-> NoErr, key |-> "none"])

\* n0: how many factory calls had been made when the call began; name: the
\* name asked of ResolveNamed ("" for Resolve); op: the operation called; all:
\* the slice ResolveAll stored in the out pointer, as <<name, instance>> pairs;
\* call: the registration call the goroutine makes, if it makes one
NoReq ==
  [svc |-> "none", sc |-> 0, g |-> 0, n0 |-> 0, st |-> "none", val |-> Nil,
   err |-> NoErr, name |-> "", op |-> "none", all |-> <<>>, call |-> NoLast]

Init ==
  /\ defs = [g \in 0..MaxResets |-> EmptyServices]
  /\ gen = 0
  /\ namedServices = EmptyNamed
  /\ nScopes = 0
  /\ scopedInst = [s \in ScopeIds |-> [T \in Types |-> Nil]]
  /\ built = <<>>
  /\ muW = 0
  /\ stack = [t \in Threads |-> <<>>]
  /\ track = [t \in Threads |-> {}]
  /\ req = [t \in Threads |-> NoReq]
  /\ last = NoLast

Idle(t) == stack[t] = <<>>
AllIdle == \A t \in Threads : Idle(t)

\* thread t's frames and tracker; when the outermost call returned, its
\* result reaches the caller (the out pointer and the error)
Apply(t, r, rq) ==
  /\ stack' = [stack EXCEPT ![t] = r.stk]
  /\ track' = [track EXCEPT ![t] = r.trk]
  /\ req' = [req EXCEPT ![t] = IF r.done
                                 THEN [rq EXCEPT !.st = "done", !.val = r.res.val,
                                                 !.err = r.res.err]
                                 ELSE rq]

TopOf(t) == Top(stack[t])
DefOf(f) == defs[f.g][f.svc]
At(t, pc) == ~Idle(t) /\ TopOf(t).pc = pc
ParamType(f) == CtorIn(DefOf(f).ctor)[f.i]

(***************************************************************************)
(* Registration calls: each holds c.mu.Lock() from entry to return, so it  *)
(* is one step.                                                            *)
(***************************************************************************)
Register(ctor, scope) ==
  /\ muW = 0
  /\ LET o == register(services, ctor, NoTarget, scope)
     IN /\ defs' = [defs EXCEPT ![gen] = o.tab]
        /\ last' = Called("Register", ctor, Nil, NoTarget, "", scope, o)
  /\ UNCHANGED <<gen, namedServices, nScopes, scopedInst, built, muW, stack, track,
                 req>>

RegisterAs(ctor, interfaceType, scope) ==
  /\ muW = 0
  /\ LET o == register(services, ctor, interfaceType, scope)
     IN /\ defs' = [defs EXCEPT ![gen] = o.tab]
        /\ last' = Called("RegisterAs", ctor, Nil, interfaceType, "", scope, o)
  /\ UNCHANGED <<gen, namedServices, nScopes, scopedInst, built, muW, stack, track,
                 req>>

RegisterInstance(instance, scope) ==
  /\ muW = 0
  /\ LET o == registerInstance(services, instance, NoTarget, scope)
     IN /\ defs' = [defs EXCEPT ![gen] = o.tab]
        /\ last' = Called("RegisterInstance", "none", instance, NoTarget, "", scope, o)
  /\ UNCHANGED <<gen, namedServices, nScopes, scopedInst, built, muW, stack, track,
                 req>>

RegisterInstanceAs(instance, interfaceType, scope) ==
  /\ muW = 0
  /\ LET o == registerInstance(services, instance, interfaceType, scope)
     IN /\ defs' = [defs EXCEPT ![gen] = o.tab]
        /\ last' = Called("RegisterInstanceAs", "none", instance, interfaceType, "",
                       scope, o)
  /\ UNCHANGED <<gen, namedServices, nScopes, scopedInst, built, muW, stack, track,
                 req>>

RegisterInstanceNamed(name, instance, scope) ==
  /\ muW = 0
  /\ LET o == registerInstanceNamed(namedServices, name, instance, NoTarget, scope)
     IN /\ namedServices' = o.tab
        /\ last' = Called("RegisterInstanceNamed", "none", instance, NoTarget, name,
                       scope, o)
  /\ UNCHANGED <<defs, gen, nScopes, scopedInst, built, muW, stack, track, req>>

RegisterInstanceAsNamed(name, instance, interfaceType, scope) ==
  /\ muW = 0
  /\ LET o == registerInstanceNamed(namedServices, name, instance, interfaceType, scope)
     IN /\ namedServices' = o.tab
        /\ last' = Called("RegisterInstanceAsNamed", "none", instance, interfaceType,
                       name, scope, o)
  /\ UNCHANGED <<defs, gen, nScopes, scopedInst, built, muW, stack, track, req>>

(***************************************************************************)
(* Container.NewScope (gofac.go:551-556), Container.Reset (937-942) and    *)
(* Scope.Reset (945-949).  Reset makes a new services map; a map no        *)
(* running resolve still holds definitions of is garbage.                  *)
(***************************************************************************)
(***************************************************************************)
(* The same registration calls at a finer grain, for goroutines that       *)
(* register at the same time: c.mu.Lock() and the body up to and including *)
(* the duplicate check are one step, the store into the map with the       *)
(* deferred c.mu.Unlock() is another.                                      *)
(***************************************************************************)
\* (the store's lock kept by its holder)
UnlockNot(mu, t) == mu

\* mu.Unlock() by goroutine t, which holds the lock if anyone does (the once.Do
\* function of Scope.resolve, 761; the root's once.Do function holds none)
Unlock(mu, t) == IF mu = t THEN 0 ELSE mu

\* (a lock that excludes nobody)
LockedNever(mu) == FALSE

\* c.mu.Lock() waits while another goroutine holds the lock
Locked(mu) == mu # 0

\* what call c returns on the tables tab and ntab
callOutcome(c, tab, ntab) ==
  IF c.op = "Register" THEN register(tab, c.ctor, c.target, c.scope)
  ELSE IF c.op = "RegisterInstance"
    THEN registerInstance(tab, c.instance, c.target, c.scope)
  ELSE registerInstanceNamed(ntab, c.name, c.instance, c.target, c.scope)

RegisterBy(t, c) ==
  /\ Idle(t)
  /\ ~Locked(muW)
  /\ LET o == callOutcome(c, services, namedServices)
     IN /\ req' = [req EXCEPT ![t] =
                     [NoReq EXCEPT !.op = c.op, !.g = gen, !.err = o.err,
                                   !.st = IF o.err = NoErr THEN "run" ELSE "done",
                                   !.call = [c EXCEPT !.err = o.err, !.key = o.key]]]
        /\ IF o.err = NoErr
             THEN /\ muW' = t
                  /\ stack' = [stack EXCEPT ![t] = <<Frame(o.key, gen, "store")>>]
             ELSE UNCHANGED <<muW, stack>>
  /\ last' = NoLast
  /\ UNCHANGED <<defs, gen, namedServices, nScopes, scopedInst, built, track>>

\* c.services[svcType] = &ServiceDef{...} (or the named map's), return nil
RegisterStore(t) ==
  /\ At(t, "store")
  /\ LET c == req[t].call
         new == callOutcome(c, EmptyServices, EmptyNamed).tab
     IN IF c.op = "RegisterInstanceNamed"
          THEN /\ namedServices' = [namedServices EXCEPT ![c.name][c.key] =
                                                           new[c.name][c.key]]
               /\ UNCHANGED defs
          ELSE /\ defs' = [defs EXCEPT ![gen][c.key] = new[c.key]]
               /\ UNCHANGED namedServices
  /\ muW' = Unlock(muW, t)
  /\ stack' = [stack EXCEPT ![t] = <<>>]
  /\ req' = [req EXCEPT ![t].st = "done"]
  /\ last' = NoLast
  /\ UNCHANGED <<gen, nScopes, scopedInst, built, track>>

NewScope ==
  /\ nScopes < MaxScopes
  /\ nScopes' = nScopes + 1
  /\ last' = NoLast
  /\ UNCHANGED <<defs, gen, namedServices, scopedInst, built, muW, stack, track,
                 req>>

ContainerReset ==
  /\ muW = 0
  /\ gen < MaxResets
  /\ gen' = gen + 1
  /\ defs' = IF AllIdle THEN [defs EXCEPT ![gen] = EmptyServices] ELSE defs
  /\ last' = NoLast
  /\ UNCHANGED <<namedServices, nScopes, scopedInst, built, muW, stack, track, req>>

\* (the map left as it is)
EmptiedNot(cache) == cache

\* make(map[reflect.Type]reflect.Value)
Emptied(cache) == [T \in Types |-> Nil]

\* (every scope given a new map)
ResetScopes(caches, s) == [x \in DOMAIN caches |-> Emptied(caches[x])]

\* s.scopedInst = make(...): the caches of the other scopes stay
ResetScope(caches, s) == [caches EXCEPT ![s] = Emptied(@)]

\* the call is remembered in `last` until the next call
ScopeReset(s) ==
  /\ s <= nScopes
  /\ scopedInst' = ResetScope(scopedInst, s)
  /\ last' = [NoLast EXCEPT !.op = "Scope.Reset"]
  /\ UNCHANGED <<defs, gen, namedServices, nScopes, built, muW, stack, track, req>>

(***************************************************************************)
(* Resolve is Container.Resolve / Scope.Resolve up to the map read         *)
(* of the outermost resolve (gofac.go:308-314, 396-420; 559-565, 574-610). *)
(* sc = 0 asks the root, sc >= 1 that scope.                               *)
(***************************************************************************)
Resolve(t, svc, sc) ==
  /\ Idle(t)
  /\ muW = 0
  /\ sc <= nScopes
  /\ Apply(t, Enter(defs, gen, <<>>, {}, svc, sc),
           [svc |-> svc, sc |-> sc, g |-> gen, n0 |-> Len(built), st |-> "run",
            val |-> Nil, err |-> NoErr, name |-> "", op |-> "Resolve", all |-> <<>>,
            call |-> NoLast])
  /\ last' = NoLast
  /\ UNCHANGED <<defs, gen, namedServices, nScopes, scopedInst, built, muW>>

\* a call made while fewer than MaxBuilt factory calls have been made
Begin(t, svc, sc) == Len(built) < MaxBuilt /\ Resolve(t, svc, sc)

(***************************************************************************)
(* Container.ResolveNamed (gofac.go:323-350): both map reads are made      *)
(* under the read lock, the instance of a named binding never changes, so  *)
(* the call is one step.  The inner map of a name exists once something    *)
(* was stored under the name (gofac.go:262-264).                           *)
(***************************************************************************)
\* (a lookup that falls back on the default table)
namedLookupOrDefault(tab, name, svc) ==
  IF tab[name][svc].reg THEN Res(tab[name][svc].instance, NoErr)
  ELSE IF services[svc].reg /\ services[svc].isInstance
    THEN Res(services[svc].instance, NoErr)
  ELSE Res(Nil, Wrap(ErrText, Sentinel(ErrServiceNotRegistered)))

\* (a lookup that refuses a Scoped binding as the root refuses it in resolve)
namedLookupScopedCheck(tab, name, svc) ==
  IF tab[name][svc].reg /\ tab[name][svc].scope = Scoped
    THEN Res(Nil, Sentinel(ErrScopedOnRootContainer))
  ELSE IF tab[name][svc].reg THEN Res(tab[name][svc].instance, NoErr)
  ELSE Res(Nil, Wrap(ErrText, Sentinel(ErrServiceNotRegistered)))

namedLookup(tab, name, svc) ==
  IF \A T \in Types : ~tab[name][T].reg THEN Res(Nil, Sentinel(ErrText))
  ELSE IF ~tab[name][svc].reg
    THEN Res(Nil, Wrap(ErrText, Sentinel(ErrServiceNotRegistered)))
  ELSE IF tab[name][svc].isInstance THEN Res(tab[name][svc].instance, NoErr)
  ELSE Res(Nil, Sentinel(ErrText))

ResolveNamed(t, name, svc) ==
  /\ Idle(t)
  /\ muW = 0
  /\ LET r == namedLookup(namedServices, name, svc)
     IN req' = [req EXCEPT ![t] =
                  [svc |-> svc, sc |-> 0, g |-> gen, n0 |-> Len(built), st |-> "done",
                   val |-> r.val, err |-> r.err, name |-> name, op |-> "ResolveNamed",
                   all |-> <<>>, call |-> NoLast]]
  /\ last' = NoLast
  /\ UNCHANGED <<defs, gen, namedServices, nScopes, scopedInst, built, muW, stack,
                 track>>

\* what an unlocked (or merely read-locked) read of the singleton slot can see
\* while another goroutine copies a value into it
\* (one cache read by every scope)
scopeCacheShared(caches, sc) == caches[1]

\* s.scopedInst: the cache of the scope the resolve was called on
scopeCache(caches, sc) == caches[sc]

\* (a read that never finds the slot filled)
SlotReadsEmpty(d) == {Nil}

SlotReads(d) == IF d.writing # Nil THEN {d.instance, d.writing, Torn} ELSE {d.instance}

(***************************************************************************)
(* Check: the cache probe of a factory-backed binding.  Root, Singleton:   *)
(* gofac.go:423-425, a read of serviceDef.instance under no lock.  Scope,  *)
(* Singleton: 613-621, the same read under the store's read lock.  Scope,  *)
(* Scoped: 627-633, a read of the scope cache under the scope's lock.      *)
(***************************************************************************)
Check(t) ==
  /\ At(t, "check")
  /\ LET f == TopOf(t)
         d == DefOf(f)
         sc == req[t].sc
     IN IF d.scope = Singleton
          THEN /\ sc # 0 => muW = 0
               /\ \E seen \in SlotReads(d) :
                    Apply(t, IF seen # Nil
                               THEN Return(defs, stack[t], track[t],
                                           Res(seen, NoErr))
                               ELSE Miss(defs, stack[t], track[t]), req[t])
          ELSE Apply(t, IF scopeCache(scopedInst, sc)[f.svc] # Nil
                          THEN Return(defs, stack[t], track[t],
                                      Res(scopeCache(scopedInst, sc)[f.svc], NoErr))
                          ELSE Miss(defs, stack[t], track[t]), req[t])
  /\ UNCHANGED <<defs, gen, namedServices, nScopes, scopedInst, built, muW, last>>

\* Scope.resolve of a pre-built Scoped binding: the cache read (598-603)
InstCheck(t) ==
  /\ At(t, "icheck")
  /\ LET f == TopOf(t)
         sc == req[t].sc
     IN Apply(t, IF scopedInst[sc][f.svc] # Nil
                   THEN Return(defs, stack[t], track[t], Res(scopedInst[sc][f.svc], NoErr))
                   ELSE [stk |-> SetTop(stack[t], [f EXCEPT !.pc = "istore"]),
                         trk |-> track[t], done |-> FALSE, res |-> Res(Nil, NoErr)],
              req[t])
  /\ UNCHANGED <<defs, gen, namedServices, nScopes, scopedInst, built, muW, last>>

\* ... and the cache write with the return (605-608)
InstStore(t) ==
  /\ At(t, "istore")
  /\ LET f == TopOf(t)
         sc == req[t].sc
     IN /\ scopedInst' = [scopedInst EXCEPT ![sc][f.svc] = DefOf(f).instance]
        /\ Apply(t, Return(defs, stack[t], track[t], Res(DefOf(f).instance, NoErr)), req[t])
  /\ UNCHANGED <<defs, gen, namedServices, nScopes, built, muW, last>>

(***************************************************************************)
(* Param: the head of one round of the loop over paramTypes (440-531,      *)
(* 650-741).  For a slice or string-keyed map parameter it is the read     *)
(* "is the exact type registered"; for any other parameter it is the map   *)
(* read of the recursive resolve.                                          *)
(***************************************************************************)
\* (the exact type never found)
ExistsNever(tab, pType) == FALSE

\* `_, sliceExists := c.services[pType]` (444-446), and the same for a map
Exists(tab, pType) == tab[pType].reg

Param(t) ==
  /\ At(t, "param")
  /\ muW = 0
  /\ LET f == TopOf(t)
         pType == ParamType(f)
     IN IF Kind(pType) \in {"slice", "map"}
          THEN Apply(t, [stk |-> SetTop(stack[t],
                                   [f EXCEPT !.pc = IF Exists(services, pType) THEN "resolve"
                                                    ELSE IF Kind(pType) = "slice" THEN "elem"
                                                    ELSE "mnamed"]),
                         trk |-> track[t], done |-> FALSE, res |-> Res(Nil, NoErr)],
                     req[t])
          ELSE Apply(t, Enter(defs, gen, SetTop(stack[t], [f EXCEPT !.pc = "wdep"]),
                              track[t], pType, req[t].sc), req[t])
  /\ UNCHANGED <<defs, gen, namedServices, nScopes, scopedInst, built, muW, last>>

\* the recursive resolve of a registered slice or map type (450, 497, 660, 707)
ResolveRegistered(t) ==
  /\ At(t, "resolve")
  /\ muW = 0
  /\ LET f == TopOf(t)
     IN Apply(t, Enter(defs, gen, SetTop(stack[t], [f EXCEPT !.pc = "wdep"]),
                       track[t], ParamType(f), req[t].sc), req[t])
  /\ UNCHANGED <<defs, gen, namedServices, nScopes, scopedInst, built, muW, last>>

\* auto-collected slice: is there a default binding of the element type (463-473)
ElemCheck(t) ==
  /\ At(t, "elem")
  /\ muW = 0
  /\ LET f == TopOf(t)
     IN Apply(t, [stk |-> SetTop(stack[t],
                            [f EXCEPT !.pc = IF services[Elem(ParamType(f))].reg
                                               THEN "elemres" ELSE "named"]),
                  trk |-> track[t], done |-> FALSE, res |-> Res(Nil, NoErr)], req[t])
  /\ UNCHANGED <<defs, gen, namedServices, nScopes, scopedInst, built, muW, last>>

\* ... its recursive resolve, whose error is dropped (467-470)
ElemResolve(t) ==
  /\ At(t, "elemres")
  /\ muW = 0
  /\ LET f == TopOf(t)
     IN Apply(t, Enter(defs, gen, SetTop(stack[t], [f EXCEPT !.pc = "welem"]),
                       track[t], Elem(ParamType(f)), req[t].sc), req[t])
  /\ UNCHANGED <<defs, gen, namedServices, nScopes, scopedInst, built, muW, last>>

\* (the loop over the names left after its first round)
NamesOfFirst(T) ==
  {n \in {"n1"} : namedServices[n][T].reg /\ namedServices[n][T].isInstance}

\* the names holding a pre-built binding of type T
NamesOf(T) == {n \in Names : namedServices[n][T].reg /\ namedServices[n][T].isInstance}

\* the orders in which `for _, namedMap := range c.namedServices` can visit them
Orders(S) == {o \in [1..Cardinality(S) -> S] : \A i, j \in DOMAIN o : i # j => o[i] # o[j]}

\* ... and the named pre-built values appended in map-iteration order (476-486)
Named(t) ==
  /\ At(t, "named")
  /\ muW = 0
  /\ LET f == TopOf(t)
         T == Elem(ParamType(f))
     IN \E o \in Orders(NamesOf(T)) :
          Apply(t, [stk |-> SetTop(stack[t],
                              Advance(f, DefOf(f).ctor,
                                      SliceVal(f.acc \o
                                        [i \in DOMAIN o |-> <<"", namedServices[o[i]][T].instance>>]))),
                    trk |-> track[t], done |-> FALSE, res |-> Res(Nil, NoErr)], req[t])
  /\ UNCHANGED <<defs, gen, namedServices, nScopes, scopedInst, built, muW, last>>

(***************************************************************************)
(* Container.ResolveAll (gofac.go:353-393): the whole call holds the read  *)
(* lock.  out points to a variable of type svc, which must be a slice; the *)
(* default binding's instance comes first when the binding is pre-built,   *)
(* then the named instances in map-iteration order.                        *)
(***************************************************************************)
\* (the default binding taken whenever its slot holds an instance)
defaultItemAny(tab, T) ==
  IF tab[T].reg /\ tab[T].instance # Nil THEN <<<<"", tab[T].instance>>>> ELSE <<>>

defaultItem(tab, T) ==
  IF tab[T].reg /\ tab[T].isInstance THEN <<<<"", tab[T].instance>>>> ELSE <<>>

ResolveAll(t, svc) ==
  /\ Idle(t)
  /\ muW = 0
  /\ \E o \in Orders(NamesOf(Elem(svc))) :
       req' = [req EXCEPT ![t] =
                 [svc |-> svc, sc |-> 0, g |-> gen, n0 |-> Len(built), st |-> "done",
                  val |-> Nil, name |-> "", op |-> "ResolveAll", call |-> NoLast,
                  err |-> IF Kind(svc) = "slice" THEN NoErr ELSE Sentinel(ErrText),
                  all |-> IF Kind(svc) = "slice"
                            THEN defaultItem(services, Elem(svc)) \o
                                 [i \in DOMAIN o |->
                                    <<o[i], namedServices[o[i]][Elem(svc)].instance>>]
                            ELSE <<>>]]
  /\ last' = NoLast
  /\ UNCHANGED <<defs, gen, namedServices, nScopes, scopedInst, built, muW, stack,
                 track>>

\* a map's entries, listed in the order of the names (a Go map has no order)
RECURSIVE Entries(_, _)
Entries(S, T) ==
  IF S = {} THEN <<>>
  ELSE LET n == CHOOSE x \in S : \A y \in S : x = "n1" \/ y # "n1"
       IN <<<<n, namedServices[n][T].instance>>>> \o Entries(S \ {n}, T)

\* auto-collected map[string]T: every named pre-built binding of T (510-521)
MapNamed(t) ==
  /\ At(t, "mnamed")
  /\ muW = 0
  /\ LET f == TopOf(t)
         T == Elem(ParamType(f))
     IN Apply(t, [stk |-> SetTop(stack[t],
                            Advance(f, DefOf(f).ctor, MapVal(Entries(NamesOf(T), T)))),
                  trk |-> track[t], done |-> FALSE, res |-> Res(Nil, NoErr)], req[t])
  /\ UNCHANGED <<defs, gen, namedServices, nScopes, scopedInst, built, muW, last>>

(***************************************************************************)
(* Call: serviceDef.ctor.Call(params) (534-538, 743-747).  The factory     *)
(* returns a new object; built records which definition made it, from      *)
(* which arguments, and for which scope.  What follows depends on the      *)
(* lifetime: a Transient result is returned as it is (547, 766).           *)
(***************************************************************************)
\* (a Transient result treated like a Singleton's would go to "once")
AfterCallCacheAll(scope) == IF scope = Scoped THEN "sstore" ELSE "once"

AfterCall(scope) ==
  IF scope = Scoped THEN "sstore" ELSE IF scope = Singleton THEN "once" ELSE "return"

Call(t) ==
  /\ At(t, "call")
  /\ LET f == TopOf(t)
         d == DefOf(f)
         id == IdOf(Len(built) + 1)
     IN /\ built' = Append(built, [svc |-> f.svc, g |-> f.g, ctor |-> d.ctor,
                                   args |-> f.args, sc |-> req[t].sc])
        /\ Apply(t, IF AfterCall(d.scope) = "return"
                      THEN Return(defs, stack[t], track[t], Res(id, NoErr))
                      ELSE [stk |-> SetTop(stack[t], [f EXCEPT !.val = id,
                                                      !.pc = AfterCall(d.scope)]),
                            trk |-> track[t], done |-> FALSE, res |-> Res(Nil, NoErr)],
                 req[t])
  /\ UNCHANGED <<defs, gen, namedServices, nScopes, scopedInst, muW, last>>

\* (the write left out: the cache as it was)
ScopedStoreNothing(cache, svc, v) == cache

\* Scoped: the instance goes into this scope's cache, under the scope's lock (750-754)
ScopedStore(cache, svc, v) == [cache EXCEPT ![svc] = v]

StoreScoped(t) ==
  /\ At(t, "sstore")
  /\ LET f == TopOf(t)
         sc == req[t].sc
     IN /\ scopedInst' = [scopedInst EXCEPT ![sc] = ScopedStore(@, f.svc, f.val)]
        /\ Apply(t, Return(defs, stack[t], track[t], Res(f.val, NoErr)), req[t])
  /\ UNCHANGED <<defs, gen, namedServices, nScopes, built, muW, last>>

(***************************************************************************)
(* Singleton: serviceDef.once.Do(func() { serviceDef.instance = instance })*)
(* (541-545; 757-763, where the function also takes the store's write      *)
(* lock).  Once: the first caller enters the function and starts copying   *)
(* the value; a caller that finds the Once done skips the function and     *)
(* returns its own instance; a caller that finds it running waits.         *)
(***************************************************************************)
\* (a guard that lets every caller in)
firstCallAny(d) == TRUE

\* sync.Once: only the first caller of once.Do runs the function
firstCall(d) == d.once = "new"

Once(t) ==
  /\ At(t, "once")
  /\ LET f == TopOf(t)
         d == DefOf(f)
     IN \/ /\ d.once = "done"
           /\ Apply(t, Return(defs, stack[t], track[t], Res(f.val, NoErr)), req[t])
           /\ UNCHANGED <<defs, muW>>
        \/ /\ firstCall(d)
           /\ req[t].sc # 0 => muW = 0
           /\ muW' = IF req[t].sc # 0 THEN t ELSE muW
           /\ defs' = [defs EXCEPT ![f.g][f.svc].once = "running",
                                   ![f.g][f.svc].writing = f.val]
           /\ Apply(t, [stk |-> SetTop(stack[t], [f EXCEPT !.pc = "commit"]),
                        trk |-> track[t], done |-> FALSE, res |-> Res(Nil, NoErr)], req[t])
  /\ UNCHANGED <<gen, namedServices, nScopes, scopedInst, built, last>>

\* (the copy left out: the guard is spent, the slot stays empty)
PublishNothing(d, v) == [d EXCEPT !.writing = Nil, !.once = "done"]

\* (the guard left running: once.Do does not complete)
PublishNeverDone(d, v) == [d EXCEPT !.instance = v, !.writing = Nil]

\* the slot after the copy
Publish(d, v) == [d EXCEPT !.instance = v, !.writing = Nil, !.once = "done"]

\* Commit: the copy is complete, the function and once.Do return, resolve returns
Commit(t) ==
  /\ At(t, "commit")
  /\ LET f == TopOf(t)
     IN /\ defs' = [defs EXCEPT ![f.g][f.svc] = Publish(@, f.val)]
        /\ muW' = Unlock(muW, t)
        /\ Apply(t, Return(defs, stack[t], track[t], Res(f.val, NoErr)), req[t])
  /\ UNCHANGED <<gen, namedServices, nScopes, scopedInst, built, last>>

(***************************************************************************)
(* The steps of a running resolve.                                         *)
(***************************************************************************)
Step(t) ==
  \/ Check(t)
  \/ InstCheck(t)
  \/ InstStore(t)
  \/ Param(t)
  \/ ResolveRegistered(t)
  \/ ElemCheck(t)
  \/ ElemResolve(t)
  \/ Named(t)
  \/ MapNamed(t)
  \/ Call(t)
  \/ StoreScoped(t)
  \/ Once(t)
  \/ Commit(t)

(***************************************************************************)
(* Spec: one caller, whose calls do not overlap.  The caller first sets    *)
(* the container up (registrations that are accepted), then creates and    *)
(* resets scopes and resolves from the root and from the scopes.           *)
(***************************************************************************)
Caller == CHOOSE t \in Threads : \A u \in Threads : t <= u

InSetup == nScopes = 0 /\ \A t \in Threads : req[t].st = "none"

Accepted == last'.err = NoErr

GraphCtors == {"NewA", "NewAB", "NewB", "NewBA"}
Requested == {"A", "B"}

Setup ==
  \/ \E c \in GraphCtors, l \in Lifetimes : Register(c, l) /\ Accepted
  \/ \E l \in {Singleton, Scoped} : RegisterInstance(1, l) /\ Accepted

StepPlain(t) ==
  \/ Check(t)
  \/ InstCheck(t)
  \/ InstStore(t)
  \/ Param(t)
  \/ Call(t)
  \/ StoreScoped(t)
  \/ Once(t)
  \/ Commit(t)

Next ==
  \/ InSetup /\ Setup
  \/ AllIdle /\ NewScope
  \/ \E s \in ScopeIds : AllIdle /\ ScopeReset(s)
  \/ \E T \in Requested, sc \in 0..MaxScopes : AllIdle /\ Begin(Caller, T, sc)
  \/ StepPlain(Caller)

Spec == Init /\ [][Next]_vars

(***************************************************************************)
(* SpecReg: one caller and the registration API: calls of all six          *)
(* registration operations at any time, accepted or rejected, resolves of  *)
(* A from the root in between (which fill a singleton slot), and           *)
(* Container.Reset followed by registration afresh.                        *)
(***************************************************************************)
AnyRegistration ==
  \/ \E c \in {"NewA", "NewAB", "NotFunc"}, l \in {Transient, Singleton} :
       Register(c, l)
  \/ \E tg \in {"I", "A", "nonptr"} : RegisterAs("NewA", tg, Singleton)
  \/ \E v \in {Nil, 1}, l \in {Transient, Singleton} : RegisterInstance(v, l)
  \/ \E v \in {Nil, 1}, tg \in {"I", "nonptr"}, l \in {Transient, Singleton} :
       RegisterInstanceAs(v, tg, l)
  \/ \E n \in {"", "n1"}, v \in {Nil, 1}, l \in {Transient, Singleton} :
       RegisterInstanceNamed(n, v, l)
  \/ \E n \in {"", "n1"}, v \in {Nil, 1}, tg \in {"A", "nonptr"},
        l \in {Transient, Singleton} :
       RegisterInstanceAsNamed(n, v, tg, l)

StepRoot(t) ==
  \/ Check(t)
  \/ Param(t)
  \/ Call(t)
  \/ Once(t)
  \/ Commit(t)

\* A rejected registration changes nothing but the record of itself, so the
\* calls that can follow it are the calls that can be made in its place: the
\* caller's next call is taken from the states whose latest call was accepted.
Settled == AllIdle /\ last.err = NoErr

NextReg ==
  \/ Settled /\ AnyRegistration
  \/ Settled /\ ContainerReset
  \/ Settled /\ Begin(Caller, "A", 0)
  \/ StepRoot(Caller)

SpecReg == Init /\ [][NextReg]_vars

(***************************************************************************)
(* SpecLife: one caller and a container that is reset and set up again     *)
(* while a scope created before the Reset stays in use.                    *)
(***************************************************************************)
SetupLife ==
  \/ \E c \in {"NewA", "NewAB", "NewB"}, l \in Lifetimes :
       Register(c, l) /\ Accepted
  \/ Register("NewBA", Scoped) /\ Accepted
  \/ \E l \in {Singleton, Scoped} : RegisterInstance(1, l) /\ Accepted

NextLife ==
  \/ AllIdle /\ SetupLife
  \/ AllIdle /\ nScopes = 0 /\ NewScope
  \/ AllIdle /\ ContainerReset
  \/ \E sc \in 0..1 : AllIdle /\ Begin(Caller, "A", sc)
  \/ StepPlain(Caller)

SpecLife == Init /\ [][NextLife]_vars

(***************************************************************************)
(* SpecConc: goroutines resolving at the same time.  The container is set  *)
(* up and the scopes are created before the first of them starts; from     *)
(* then on every thread issues Resolve calls for A, from the root or from  *)
(* a scope, and their steps interleave freely.                             *)
(***************************************************************************)
NotStarted == \A t \in Threads : req[t].st = "none"

SetupConc ==
  \/ \E c \in {"NewA", "NewAB", "NewB"}, l \in Lifetimes : Register(c, l) /\ Accepted
  \/ RegisterInstance(1, Scoped) /\ Accepted

NextConc ==
  \/ NotStarted /\ SetupConc
  \/ NotStarted /\ NewScope
  \/ \E t \in Threads, sc \in 0..MaxScopes : Begin(t, "A", sc)
  \/ \E t \in Threads : StepPlain(t)

SpecConc == Init /\ [][NextConc]_vars

(***************************************************************************)
(* SpecReset: one caller; default and named bindings are registered, the   *)
(* container is reset, and the caller resolves by type (from the root and  *)
(* from a scope made before or after the Reset) and by name.  Names are    *)
(* bound before the first Reset only, so that after a Reset an empty       *)
(* default table means that nothing was registered since.                  *)
(***************************************************************************)
SetupReset ==
  \/ \E l \in Lifetimes : Register("NewA", l) /\ Accepted
  \/ \E c \in {"NewAB", "NewB"} : Register(c, Scoped) /\ Accepted
  \/ \E l \in {Singleton, Scoped} : RegisterInstance(1, l) /\ Accepted
  \/ \E n \in Names : gen = 0 /\ RegisterInstanceNamed(n, 2, Singleton) /\ Accepted

NextReset ==
  \/ AllIdle /\ SetupReset
  \/ AllIdle /\ nScopes = 0 /\ NewScope
  \/ AllIdle /\ ContainerReset
  \/ \E sc \in 0..1 : AllIdle /\ Begin(Caller, "A", sc)
  \/ \E n \in Names : AllIdle /\ ResolveNamed(Caller, n, "A")
  \/ StepPlain(Caller)

SpecReset == Init /\ [][NextReset]_vars

(***************************************************************************)
(* SpecColl: one caller resolves a consumer C whose factory takes a slice  *)
(* of A (NewCS), a map of A (NewCM) or A and B (NewC).  A has a default    *)
(* binding that resolves or fails (Scoped on the root, a missing or a      *)
(* cyclic dependency), named pre-built bindings, and the exact slice or    *)
(* map type may be registered itself.                                      *)
(***************************************************************************)
SetupColl ==
  \/ \E l \in Lifetimes : Register("NewA", l) /\ Accepted
  \/ Register("NewAB", Singleton) /\ Accepted
  \/ RegisterInstance(1, Singleton) /\ Accepted
  \/ /\ \/ services["A"].ctor = "NewAB"
        \/ services["A"].ctor = "NewA" /\ services["C"].ctor = "NewC"
     /\ Register("NewBA", Singleton) /\ Accepted
  \/ Register("NewB", Scoped) /\ Accepted
  \/ \E c \in {"NewCS", "NewCM", "NewC"} : Register(c, Transient) /\ Accepted
  \/ services["C"].ctor = "NewCS"
       /\ \E l \in {Singleton, Scoped} : RegisterInstance(3, l) /\ Accepted
  \/ services["C"].ctor = "NewCM"
       /\ \E l \in {Singleton, Scoped} : Register("NewMA", l) /\ Accepted
  \/ RegisterInstanceNamed("n1", 2, Singleton) /\ Accepted
  \/ RegisterInstanceNamed("n2", 4, Scoped) /\ Accepted

NextColl ==
  \/ InSetup /\ SetupColl
  \/ AllIdle /\ nScopes = 0 /\ NewScope
  \/ \E sc \in 0..1 : AllIdle /\ Begin(Caller, "C", sc)
  \/ Step(Caller)

SpecColl == Init /\ [][NextColl]_vars

(***************************************************************************)
(* SpecMix: Repo (A, NewA) is Singleton, Log (B, NewB) is Scoped and Svc   *)
(* (C, NewC(A, B)) is Transient; one caller resolves Svc from the root and *)
(* from the scopes until MaxMix factory calls have been made.              *)
(***************************************************************************)
SetupMix ==
  \/ Register("NewA", Singleton) /\ Accepted
  \/ Register("NewB", Scoped) /\ Accepted
  \/ Register("NewC", Transient) /\ Accepted

StepMix(t) ==
  \/ Check(t)
  \/ Param(t)
  \/ Call(t)
  \/ StoreScoped(t)
  \/ Once(t)
  \/ Commit(t)

NextMix ==
  \/ InSetup /\ SetupMix
  \/ AllIdle /\ NewScope
  \/ \E sc \in 0..MaxScopes : AllIdle /\ Len(built) < MaxMix /\ Resolve(Caller, "C", sc)
  \/ StepMix(Caller)

SpecMix == Init /\ [][NextMix]_vars

(***************************************************************************)
(* SpecNamed: one caller registers default and named bindings of A in any  *)
(* order, repeated registrations included, and asks the root for A by      *)
(* type, by name and for all of them.                                      *)
(***************************************************************************)
AnyNamed ==
  \/ \E c \in {"NewA", "NewAB"}, l \in {Transient, Singleton} : Register(c, l)
  \/ Register("NewB", Transient)
  \/ RegisterInstance(1, Singleton)
  \/ \E n \in Names, v \in {2, 4} : RegisterInstanceNamed(n, v, Singleton)

NextNamed ==
  \/ Settled /\ AnyNamed
  \/ Settled /\ Begin(Caller, "A", 0)
  \/ \E n \in Names : Settled /\ ResolveNamed(Caller, n, "A")
  \/ \E T \in {"SA", "A"} : Settled /\ ResolveAll(Caller, T)
  \/ StepRoot(Caller)

SpecNamed == Init /\ [][NextNamed]_vars

(***************************************************************************)
(* SpecRace: one binding of A (a factory of any lifetime, a Singleton that *)
(* takes a Transient B, or a pre-built Scoped value) and one scope; then   *)
(* every goroutine resolves A from the root or from the scope, the first   *)
(* one again and again, all steps interleaved.                             *)
(***************************************************************************)
SetupRace ==
  \/ \E l \in Lifetimes : Register("NewA", l) /\ Accepted
  \/ Register("NewAB", Singleton) /\ Accepted
  \/ Register("NewB", Transient) /\ Accepted
  \/ RegisterInstance(1, Scoped) /\ Accepted

NextRace ==
  \/ NotStarted /\ SetupRace
  \/ NotStarted /\ nScopes = 0 /\ NewScope
  \/ \E t \in Threads, sc \in 0..1 :
       (t = Caller \/ req[t].st = "none") /\ Begin(t, "A", sc)
  \/ \E t \in Threads : StepPlain(t)

SpecRace == Init /\ [][NextRace]_vars

(***************************************************************************)
(* SpecRegRace: every goroutine makes one registration call, all at the    *)
(* same time: three calls for the key A of the default table, one for its  *)
(* key B, two for the key (n1, A) of the named table and one that fails    *)
(* its own check.                                                          *)
(***************************************************************************)
RaceCalls ==
  {Called("Register", "NewA", Nil, NoTarget, "", Singleton, NoLast),
   Called("Register", "NewAB", Nil, NoTarget, "", Transient, NoLast),
   Called("Register", "NewB", Nil, NoTarget, "", Scoped, NoLast),
   Called("RegisterInstance", "none", 1, NoTarget, "", Singleton, NoLast),
   Called("RegisterInstance", "none", 1, NoTarget, "", Transient, NoLast),
   Called("RegisterInstanceNamed", "none", 2, NoTarget, "n1", Singleton, NoLast),
   Called("RegisterInstanceNamed", "none", 4, NoTarget, "n1", Scoped, NoLast)}

NextRegRace ==
  \/ \E t \in Threads, c \in RaceCalls : req[t].st = "none" /\ RegisterBy(t, c)
  \/ \E t \in Threads : RegisterStore(t)

SpecRegRace == Init /\ [][NextRegRace]_vars

(***************************************************************************)
(* SpecLive: the caller resolves C, which takes a []A that is registered  *)
(* or auto-collected, and a second goroutine resolves A, each once, from   *)
(* the root or from the scope, while NewBA is registered and the container *)
(* is reset in between; A is NewA or NewAB, so that the registration of    *)
(* NewBA closes the cycle A -> B -> A under running resolves.  The Go      *)
(* scheduler runs every goroutine that can run: each goroutine's next step *)
(* is weakly fair.                                                         *)
(***************************************************************************)
SetupLive ==
  \/ \E c \in {"NewA", "NewAB"} : Register(c, Singleton) /\ Accepted
  \/ Register("NewCS", Transient) /\ Accepted
  \/ RegisterInstance(3, Singleton) /\ Accepted

\* the goroutine that resolves beside the caller
Second == CHOOSE t \in Threads : t # Caller

StepLive(t) ==
  \/ Check(t)
  \/ Param(t)
  \/ ResolveRegistered(t)
  \/ ElemCheck(t)
  \/ ElemResolve(t)
  \/ Named(t)
  \/ Call(t)
  \/ Once(t)
  \/ Commit(t)

NextLive ==
  \/ NotStarted /\ SetupLive
  \/ NotStarted /\ nScopes = 0 /\ NewScope
  \/ \E sc \in 0..1 : req[Caller].st = "none" /\ Begin(Caller, "C", sc)
  \/ \E sc \in 0..1 : req[Second].st = "none" /\ Begin(Second, "A", sc)
  \/ \E t \in {Caller, Second} : StepLive(t)
  \/ ~AllIdle /\ Register("NewBA", Transient) /\ Accepted
  \/ ~AllIdle /\ ContainerReset

SpecLive == Init /\ [][NextLive]_vars /\ \A t \in Threads : WF_vars(StepLive(t))

(***************************************************************************)
(* SpecRetry: one caller resolves Svc (C, NewC(A, B)) from the root and    *)
(* from a scope while B may still be missing; A and C are Singleton or     *)
(* Scoped, and B is registered before, between or after the resolves; the  *)
(* scope is created before the first resolve.                              *)
(***************************************************************************)
SetupRetry ==
  \/ \E c \in {"NewA", "NewC"}, l \in {Singleton, Scoped} : Register(c, l) /\ Accepted
  \/ \E l \in Lifetimes : Register("NewB", l) /\ Accepted

NextRetry ==
  \/ AllIdle /\ SetupRetry
  \/ NotStarted /\ nScopes = 0 /\ NewScope
  \/ \E sc \in 0..1 : AllIdle /\ Begin(Caller, "C", sc)
  \/ StepMix(Caller)

SpecRetry == Init /\ [][NextRetry]_vars

(***************************************************************************)
(* SpecScopedNamed: pre-built bindings registered as Scoped, under names   *)
(* and as the default of A, beside consumers that collect A into a slice   *)
(* or a map; one caller asks the root by name and for all of them, and     *)
(* resolves the consumer from the root and from a scope.                   *)
(***************************************************************************)
SetupScopedNamed ==
  \/ RegisterInstanceNamed("n1", 2, Scoped) /\ Accepted
  \/ \E l \in Lifetimes : RegisterInstanceNamed("n2", 4, l) /\ Accepted
  \/ RegisterInstance(1, Scoped) /\ Accepted
  \/ \E l \in {Singleton, Scoped} : Register("NewA", l) /\ Accepted
  \/ \E c \in {"NewCS", "NewCM"} : Register(c, Transient) /\ Accepted
  \/ services["C"].ctor = "NewCS" /\ RegisterInstance(3, Singleton) /\ Accepted

NextScopedNamed ==
  \/ InSetup /\ SetupScopedNamed
  \/ AllIdle /\ nScopes = 0 /\ NewScope
  \/ \E n \in Names : AllIdle /\ ResolveNamed(Caller, n, "A")
  \/ AllIdle /\ ResolveAll(Caller, "SA")
  \/ \E sc \in 0..1 : AllIdle /\ Begin(Caller, "C", sc)
  \/ Step(Caller)

SpecScopedNamed == Init /\ [][NextScopedNamed]_vars

(***************************************************************************)
(* SpecEquiv: graphs of A, B and C = NewC(A, B) whose bindings are         *)
(* Transient, Singleton or pre-built, with B possibly missing, cyclic or   *)
(* Scoped; one caller resolves A or C from the root and from every scope.  *)
(***************************************************************************)
SetupEquiv ==
  \/ \E c \in GraphCtors \cup {"NewC"}, l \in {Transient, Singleton} :
       Register(c, l) /\ Accepted
  \/ RegisterInstance(1, Singleton) /\ Accepted
  \/ Register("NewB", Scoped) /\ Accepted

NextEquiv ==
  \/ InSetup /\ SetupEquiv
  \/ AllIdle /\ NewScope
  \/ \E T \in {"A", "C"}, sc \in 0..MaxScopes : AllIdle /\ Begin(Caller, T, sc)
  \/ StepMix(Caller)

SpecEquiv == Init /\ [][NextEquiv]_vars

(***************************************************************************)
(* Vocabulary of the properties.                                           *)
(***************************************************************************)
FactoryBacked(d) == d.reg /\ ~d.isInstance

\* the invocations of the factory of the binding svc of generation g
BuiltBy(svc, g) == {k \in DOMAIN built : built[k].svc = svc /\ built[k].g = g}

\* the invocation that made instance v
MadeAt(v) == {k \in DOMAIN built : IdOf(k) = v}

\* the binding thread t's latest Resolve call asked for
AskedDef(t) == defs[req[t].g][req[t].svc]

Returned(t) == req[t].st = "done" /\ req[t].err = NoErr

\* the positions (k, i) at which a factory was handed an instance of type T
Injected(T, g) ==
  {p \in (DOMAIN built) \X (1..2) :
     /\ built[p[1]].g = g
     /\ p[2] \in DOMAIN CtorIn(built[p[1]].ctor)
     /\ CtorIn(built[p[1]].ctor)[p[2]] = T}

\* C1: in a sequence of non-overlapping operations without Container.Reset, a
\* factory-backed Singleton binding is not built by its registration, is built
\* exactly once from its first successful resolve on, and every successful
\* resolve of it -- a Resolve call on the root or on a scope, or the resolve
\* of a factory parameter -- yields that one instance
SingletonBuiltOnce ==
  \A T \in Types :
    LET d == services[T]
    IN (FactoryBacked(d) /\ d.scope = Singleton) =>
         /\ Cardinality(BuiltBy(T, gen)) <= 1
         /\ (last.err = NoErr /\ last.key = T) =>
              (BuiltBy(T, gen) = {} /\ d.instance = Nil)
         /\ d.instance # Nil => BuiltBy(T, gen) = MadeAt(d.instance)
         /\ (AllIdle /\ BuiltBy(T, gen) # {}) => d.instance # Nil
         /\ \A t \in Threads :
              (Returned(t) /\ req[t].svc = T /\ req[t].g = gen) =>
                (d.instance # Nil /\ req[t].val = d.instance)
         /\ \A p \in Injected(T, gen) :
              built[p[1]].args[p[2]] = Obj(d.instance) /\ d.instance # Nil

\* a resolve from a scope returned the instance an earlier resolve from the
\* root had built
SingletonReused ==
  /\ Returned(Caller)
  /\ FactoryBacked(AskedDef(Caller)) /\ AskedDef(Caller).scope = Singleton
  /\ req[Caller].sc # 0
  /\ req[Caller].n0 = Len(built)
  /\ \E k \in MadeAt(req[Caller].val) : built[k].sc = 0

\* C6: every resolve of a factory-backed Transient binding that returns, from
\* the root or from a scope, has invoked the factory once and returns what
\* that invocation made; the instance is in no singleton slot and in no scope
\* cache, and it is handed out once only: to no other Resolve call and to no
\* other factory parameter
TransientFresh ==
  /\ \A t \in Threads :
       (Returned(t) /\ FactoryBacked(AskedDef(t)) /\ AskedDef(t).scope = Transient) =>
         /\ {k \in BuiltBy(req[t].svc, req[t].g) : k > req[t].n0} = MadeAt(req[t].val)
         /\ Cardinality(MadeAt(req[t].val)) = 1
         /\ \A p \in (DOMAIN built) \X (1..2) :
              p[2] \in DOMAIN built[p[1]].args =>
                built[p[1]].args[p[2]] # Obj(req[t].val)
  /\ \A T \in Types :
       (FactoryBacked(services[T]) /\ services[T].scope = Transient) =>
         /\ services[T].instance = Nil
         /\ \A k \in BuiltBy(T, gen) :
              /\ \A s \in ScopeIds, U \in Types : scopedInst[s][U] # IdOf(k)
              /\ \A U \in Types : services[U].instance # IdOf(k)
         /\ \A p \in Injected(T, gen) :
              /\ \E k \in BuiltBy(T, gen) :
                   k < p[1] /\ built[p[1]].args[p[2]] = Obj(IdOf(k))
              /\ \A q \in (DOMAIN built) \X (1..2) :
                   (q # p /\ q[2] \in DOMAIN built[q[1]].args) =>
                     built[q[1]].args[q[2]] # built[p[1]].args[p[2]]

\* a second Resolve of a Transient binding returned, from a scope, after the
\* first one had returned from the root
TransientAgain ==
  /\ Returned(Caller)
  /\ FactoryBacked(AskedDef(Caller)) /\ AskedDef(Caller).scope = Transient
  /\ req[Caller].sc # 0
  /\ \E k \in BuiltBy(req[Caller].svc, req[Caller].g) :
       k <= req[Caller].n0 /\ built[k].sc = 0

\* a step that begins, continues or ends thread t's Resolve call on the root
\* for a binding whose lifetime is Scoped
RootScopedStep(t) ==
  /\ req'[t] # req[t]
  /\ req'[t].sc = 0
  /\ defs[req'[t].g][req'[t].svc].reg
  /\ defs[req'[t].g][req'[t].svc].scope = Scoped

\* C7: a Resolve call on the root for a Scoped binding, factory-backed or
\* pre-built, returns scoped-on-root from its first step, in whatever state
\* it is made: no factory is invoked, and no table, singleton slot or scope
\* cache changes
ScopedOnRootFails ==
  [][\A t \in Threads :
       RootScopedStep(t) =>
         /\ req[t].st # "run" /\ req'[t].st = "done"
         /\ req'[t].val = Nil
         /\ req'[t].err = Sentinel(ErrScopedOnRootContainer)
         /\ ErrorsIs(req'[t].err, ErrScopedOnRootContainer)
         /\ UNCHANGED <<defs, gen, namedServices, scopedInst, built>>]_vars

\* the root refused a Scoped binding of which a scope holds an instance
ScopedRefusedOnRoot ==
  /\ req[Caller].st = "done" /\ req[Caller].sc = 0
  /\ req[Caller].err = Sentinel(ErrScopedOnRootContainer)
  /\ AskedDef(Caller).reg /\ AskedDef(Caller).scope = Scoped
  /\ \E s \in ScopeIds : scopedInst[s][req[Caller].svc] # Nil

\* C2: whatever the interleaving of concurrent first resolves of one
\* factory-backed Singleton binding, all of them return the same instance
\* (compared here only when both got a whole instance, not a torn read)
SingletonSharedByAll ==
  \A t, u \in Threads :
    (/\ Returned(t) /\ Returned(u)
     /\ req[t].val # Torn /\ req[u].val # Torn
     /\ req[t].svc = req[u].svc /\ req[t].g = req[u].g
     /\ FactoryBacked(AskedDef(t)) /\ AskedDef(t).scope = Singleton) =>
      req[t].val = req[u].val

\* C3: the factory of a factory-backed Singleton binding is invoked at most
\* once, however many goroutines resolve the binding at the same time
SingletonFactoryOnce ==
  \A T \in Types :
    (FactoryBacked(services[T]) /\ services[T].scope = Singleton) =>
      Cardinality(BuiltBy(T, gen)) <= 1

\* C5: two concurrent resolves of one factory-backed Scoped binding in the
\* same scope return the same instance
ScopedSharedInScope ==
  \A t, u \in Threads :
    (/\ Returned(t) /\ Returned(u)
     /\ req[t].svc = req[u].svc /\ req[t].g = req[u].g
     /\ req[t].sc = req[u].sc /\ req[t].sc # 0
     /\ FactoryBacked(AskedDef(t)) /\ AskedDef(t).scope = Scoped) =>
      req[t].val = req[u].val

\* C4: in a sequence of non-overlapping resolves of a factory-backed Scoped
\* binding with no Scope.Reset, a resolve in a scope returns the instance
\* the binding's factory made for that scope, in its one invocation for that
\* scope, and two scopes never hold the same instance
ScopedOncePerScope ==
  /\ \A t \in Threads :
       (/\ Returned(t) /\ req[t].sc # 0
        /\ FactoryBacked(AskedDef(t)) /\ AskedDef(t).scope = Scoped) =>
         LET mine == {k \in BuiltBy(req[t].svc, req[t].g) : built[k].sc = req[t].sc}
         IN Cardinality(mine) = 1 /\ MadeAt(req[t].val) = mine
  /\ \A T \in Types, s1, s2 \in ScopeIds :
       (/\ FactoryBacked(services[T]) /\ services[T].scope = Scoped
        /\ s1 # s2 /\ scopedInst[s1][T] # Nil) =>
         scopedInst[s1][T] # scopedInst[s2][T]

\* the factory-backed bindings the factory of T takes as parameters
DepsOf(T, g) ==
  IF FactoryBacked(defs[g][T])
    THEN {U \in Types : /\ FactoryBacked(defs[g][U])
                        /\ \E i \in DOMAIN CtorIn(defs[g][T].ctor) :
                             CtorIn(defs[g][T].ctor)[i] = U}
    ELSE {}

RECURSIVE ReachableFrom(_, _, _)
ReachableFrom(S, g, n) ==
  IF n = 0 THEN S
  ELSE ReachableFrom(S \cup UNION {DepsOf(U, g) : U \in S}, g, n - 1)

\* T lies on a directed cycle of factory-backed bindings
OnCycle(T, g) == T \in ReachableFrom(DepsOf(T, g), g, Cardinality(Types))

\* C8: a Resolve call, on the root or on a scope, for a type on a directed
\* cycle of factory-backed bindings fails, and invokes no factory on the
\* cycle (the claim adds that the failure is circular-dependency)
CycleNeverResolves ==
  \A t \in Threads :
    (req[t].st = "done" /\ OnCycle(req[t].svc, req[t].g)) =>
      /\ req[t].err # NoErr
      /\ \A k \in DOMAIN built :
           k > req[t].n0 => ~OnCycle(built[k].svc, built[k].g)

\* a step that is a registration call (a call repeated with the same outcome
\* changes nothing at all)
RegStep == last' # NoLast /\ last' # last

InstanceOps ==
  {"RegisterInstance", "RegisterInstanceAs", "RegisterInstanceNamed",
   "RegisterInstanceAsNamed"}
NamedOps == {"RegisterInstanceNamed", "RegisterInstanceAsNamed"}

\* the implementation type call c registers: the factory's return type or
\* the dynamic type of the instance
CallImpl(c) ==
  IF c.op \in InstanceOps
    THEN IF c.instance = Nil THEN "none" ELSE TypeOfVal(c.instance)
    ELSE IF IsFunc(c.ctor) /\ Len(CtorOut(c.ctor)) = 1 THEN CtorOut(c.ctor)[1]
    ELSE "none"

\* the key call c asks to register under, "none" if its arguments name none
CallKey(c) ==
  IF CallImpl(c) = "none" THEN "none" ELSE ServiceKey(CallImpl(c), c.target).key

\* call c asks for a key that the table it addresses holds a binding under
KeyTaken(c) ==
  /\ CallKey(c) # "none"
  /\ IF c.op \in NamedOps
       THEN c.name \in Names /\ namedServices[c.name][CallKey(c)].reg
       ELSE services[CallKey(c)].reg

\* call c passes every check its operation makes before the duplicate check
WellFormed(c) ==
  /\ CallKey(c) # "none"
  /\ c.op \in InstanceOps => c.scope # Transient
  /\ c.op \in NamedOps => c.name # ""
  /\ c.op \notin InstanceOps => Kind(CallImpl(c)) # "iface"

\* C9 as stated: once a key is taken in a table, every later registration
\* call for that key in that table, by any of the six operations, fails with
\* duplicate-registration and leaves the tables, cached instances included,
\* as they were
DuplicateAlwaysRejected ==
  [][(RegStep /\ KeyTaken(last')) =>
       /\ ErrorsIs(last'.err, ErrRegisterDuplicate)
       /\ UNCHANGED <<defs, namedServices>>]_vars

\* C9, amended: while a key is taken in a table, every registration call for
\* that key in that table that passes the checks its operation makes first
\* fails with duplicate-registration; and every registration call that
\* fails, for whatever reason, leaves the tables, cached instances included,
\* as they were
DuplicateRejected ==
  [][RegStep =>
       /\ (KeyTaken(last') /\ WellFormed(last')) =>
            ErrorsIs(last'.err, ErrRegisterDuplicate)
       /\ last'.err # NoErr => UNCHANGED <<defs, namedServices>>]_vars

\* an instance registration was refused as a duplicate of a factory-backed
\* Singleton binding whose slot is filled
DuplicateOfCached ==
  /\ last.op = "RegisterInstance"
  /\ ErrorsIs(last.err, ErrRegisterDuplicate)
  /\ FactoryBacked(services[last.key])
  /\ services[last.key].instance # Nil

\* C10: each of the four instance registrations called with Transient fails
\* with transient-instance-forbidden, whatever the value (nil included), the
\* target and the name (empty included), and leaves both tables as they were
TransientInstanceRefused ==
  [][(RegStep /\ last'.op \in InstanceOps /\ last'.scope = Transient) =>
       /\ last'.err = Sentinel(ErrTransientInstance)
       /\ ErrorsIs(last'.err, ErrTransientInstance)
       /\ UNCHANGED <<defs, namedServices>>]_vars

\* a Transient registration of a nil value under an empty name was refused,
\* the tables holding bindings
TransientNilRefused ==
  /\ last.op = "RegisterInstanceAsNamed"
  /\ last.scope = Transient /\ last.instance = Nil /\ last.name = ""
  /\ last.err = Sentinel(ErrTransientInstance)
  /\ \E T \in Types : services[T].reg
  /\ \E n \in Names, T \in Types : namedServices[n][T].reg

(***************************************************************************)
(* C11: after Container.Reset, and until something is registered again,    *)
(* every resolve operation fails: Resolve on the root and on a scope with  *)
(* an error that is not-registered, ResolveNamed with an error.            *)
(***************************************************************************)
AfterReset(t) ==
  /\ req[t].st = "done"
  /\ req[t].g = gen
  /\ gen > 0
  /\ services = EmptyServices

ResetForgetsEverything ==
  \A t \in Threads :
    AfterReset(t) =>
      /\ req[t].err # NoErr
      /\ req[t].name = "" => ErrorsIs(req[t].err, ErrServiceNotRegistered)

(***************************************************************************)
(* Vocabulary of the collection properties.  Named(T): the names bound to  *)
(* a value of T.  CanResolve(T, sc, k, trk): resolve(T) asked of sc (0:    *)
(* the root) with the types trk under resolution succeeds, given the       *)
(* factory calls made before the k-th.  IsValueOf(v, T, sc, k): v is what  *)
(* that resolve yields.                                                    *)
(***************************************************************************)
NamedBindings(T) == {n \in Names : namedServices[n][T].reg}

Count(es, v) == Cardinality({i \in DOMAIN es : es[i][2] = v})

Collected(P) == Kind(P) \in {"slice", "map"} /\ ~services[P].reg

RECURSIVE CanResolve(_, _, _, _)
CanResolve(T, sc, k, trk) ==
  LET d == services[T]
  IN /\ d.reg
     /\ T \notin trk
     /\ ~(sc = 0 /\ d.scope = Scoped)
     /\ \/ d.isInstance
        \/ d.scope = Singleton /\ \E j \in 1..(k - 1) : built[j].svc = T
        \/ d.scope = Scoped /\ \E j \in 1..(k - 1) : built[j].svc = T /\ built[j].sc = sc
        \/ \A i \in DOMAIN CtorIn(d.ctor) :
             \/ Collected(CtorIn(d.ctor)[i])
             \/ CanResolve(CtorIn(d.ctor)[i], sc, k, trk \cup {T})

IsValueOf(v, T, sc, k) ==
  LET d == services[T]
  IN IF d.isInstance \/ d.scope = Singleton THEN v = d.instance
     ELSE IF d.scope = Scoped THEN sc # 0 /\ v = scopedInst[sc][T]
     ELSE \E j \in 1..(k - 1) : v = IdOf(j) /\ built[j].svc = T

(***************************************************************************)
(* C12: when []A is not registered, a factory with a []A parameter,        *)
(* resolved from the root or from a scope, receives a slice that holds the *)
(* value of every named binding of A exactly once, plus the value of the   *)
(* default binding of A if and only if the default resolves: its length is *)
(* the number of names, or one more.                                       *)
(***************************************************************************)
SliceComposition ==
  \A k \in DOMAIN built :
    (built[k].ctor = "NewCS" /\ ~services["SA"].reg) =>
      LET es == built[k].args[1].elems
          def == CanResolve("A", built[k].sc, k, {"C"})
      IN /\ built[k].args[1].k = "slice"
         /\ Len(es) = Cardinality(NamedBindings("A")) + (IF def THEN 1 ELSE 0)
         /\ \A n \in NamedBindings("A") : Count(es, namedServices[n]["A"].instance) = 1
         /\ def => \E i \in DOMAIN es : IsValueOf(es[i][2], "A", built[k].sc, k)

\* a slice of three was injected: the default value and both named values
SliceOfThree ==
  \E k \in DOMAIN built :
    /\ built[k].ctor = "NewCS"
    /\ built[k].args[1].k = "slice"
    /\ Len(built[k].args[1].elems) = 3

(***************************************************************************)
(* C13: when map[string]A is not registered, a factory with such a         *)
(* parameter receives a map whose keys are exactly the names bound to a    *)
(* value of A, each name mapped to the instance registered under it; the   *)
(* value of the default binding of A is not in the map.                    *)
(***************************************************************************)
MapComposition ==
  \A k \in DOMAIN built :
    (built[k].ctor = "NewCM" /\ ~services["MA"].reg) =>
      LET es == built[k].args[1].elems
      IN /\ built[k].args[1].k = "map"
         /\ Len(es) = Cardinality(NamedBindings("A"))
         /\ {es[i][1] : i \in DOMAIN es} = NamedBindings("A")
         /\ \A i \in DOMAIN es : es[i][2] = namedServices[es[i][1]]["A"].instance
         /\ \A i \in DOMAIN es : ~IsValueOf(es[i][2], "A", built[k].sc, k)

\* a map of two was injected while A had a default binding that resolves
MapOfTwo ==
  \E k \in DOMAIN built :
    /\ built[k].ctor = "NewCM"
    /\ built[k].args[1].k = "map"
    /\ Len(built[k].args[1].elems) = 2
    /\ CanResolve("A", built[k].sc, k, {"C"})

(***************************************************************************)
(* C14: when the exact slice or map type of a factory parameter has a      *)
(* default binding, the parameter receives what resolving that binding     *)
(* yields under the binding's own lifetime, and nothing is collected; when *)
(* that resolve fails, the outer resolve fails and its factory is not      *)
(* called.                                                                 *)
(***************************************************************************)
RegisteredParams(c) ==
  {i \in DOMAIN CtorIn(c) : Kind(CtorIn(c)[i]) \in {"slice", "map"}
                              /\ services[CtorIn(c)[i]].reg}

RegisteredCollectionWins ==
  /\ \A k \in DOMAIN built : \A i \in RegisteredParams(built[k].ctor) :
       /\ built[k].args[i].k = "obj"
       /\ IsValueOf(built[k].args[i].id, CtorIn(built[k].ctor)[i], built[k].sc, k)
  /\ \A t \in Threads :
       LET r == req[t]
       IN (/\ r.st = "done"
           /\ r.name = ""
           /\ ~CanResolve(r.svc, r.sc, r.n0 + 1, {})
           /\ \E i \in RegisteredParams(AskedDef(t).ctor) :
                ~CanResolve(CtorIn(AskedDef(t).ctor)[i], r.sc, r.n0 + 1, {r.svc}))
          => /\ r.err # NoErr
             /\ \A k \in (r.n0 + 1)..Len(built) : built[k].svc # r.svc

\* the registered []A value was injected although names are bound to values of A
RegisteredSliceInjected ==
  \E k \in DOMAIN built :
    /\ built[k].ctor = "NewCS"
    /\ built[k].args[1] = Obj(3)
    /\ NamedBindings("A") # {}

(***************************************************************************)
(* C15: while []A is collected, if the default binding of A exists but its *)
(* resolve fails (Scoped asked of the root, a dependency that is not       *)
(* registered, a cycle), the outer resolve succeeds all the same and the   *)
(* slice holds exactly the values of the named bindings of A.              *)
(***************************************************************************)
DefaultFails(t) ==
  /\ req[t].st = "done"
  /\ req[t].name = ""
  /\ AskedDef(t).ctor = "NewCS"
  /\ ~services["SA"].reg
  /\ services["A"].reg
  /\ ~CanResolve("A", req[t].sc, req[t].n0 + 1, {req[t].svc})

DefaultFailureSwallowed ==
  \A t \in Threads :
    DefaultFails(t) =>
      /\ req[t].err = NoErr
      /\ MadeAt(req[t].val) # {}
      /\ \A k \in MadeAt(req[t].val) :
           LET es == built[k].args[1].elems
           IN /\ built[k].args[1].k = "slice"
              /\ Len(es) = Cardinality(NamedBindings("A"))
              /\ \A n \in NamedBindings("A") :
                   Count(es, namedServices[n]["A"].instance) = 1

\* the default binding of A lies on a cycle, both names are bound, and the
\* consumer was resolved
DefaultOnCycleSwallowed ==
  \E t \in Threads :
    /\ DefaultFails(t)
    /\ Returned(t)
    /\ services["B"].ctor = "NewBA"
    /\ Cardinality(NamedBindings("A")) = 2

(***************************************************************************)
(* C16: WhyNot(T, sc, k, trk) is the kind of the first failure a resolve   *)
(* of T meets, going through the parameters in order and leaving out the   *)
(* default element of a collected slice.  When the requested binding       *)
(* cannot be resolved because of it, the outermost resolve returns an      *)
(* error that errors.Is that kind, and no factory of the requested binding *)
(* or of a binding on the path to the failure was called.                  *)
(***************************************************************************)
RECURSIVE WhyNot(_, _, _, _)
WhyNot(T, sc, k, trk) ==
  LET d == services[T]
      ins == CtorIn(d.ctor)
      bad == {i \in DOMAIN ins : ~Collected(ins[i])
                                   /\ ~CanResolve(ins[i], sc, k, trk \cup {T})}
  IN IF ~d.reg THEN ErrServiceNotRegistered
     ELSE IF T \in trk THEN ErrResolveCircularDependency
     ELSE IF sc = 0 /\ d.scope = Scoped THEN ErrScopedOnRootContainer
     ELSE WhyNot(ins[CHOOSE i \in bad : \A j \in bad : i <= j], sc, k, trk \cup {T})

OnPath(e) == {e[i] : i \in DOMAIN e} \cap Types

FailurePropagates ==
  \A t \in Threads :
    LET r == req[t]
    IN (r.st = "done" /\ r.name = "" /\ ~CanResolve(r.svc, r.sc, r.n0 + 1, {})) =>
         /\ ErrorsIs(r.err, WhyNot(r.svc, r.sc, r.n0 + 1, {}))
         /\ \A k \in (r.n0 + 1)..Len(built) : built[k].svc \notin {r.svc} \cup OnPath(r.err)

\* C's parameter A needs B, which is not registered: the failure lies two
\* resolves below the request
FailedTwoBelow ==
  \E t \in Threads :
    /\ req[t].st = "done"
    /\ req[t].svc = "C"
    /\ req[t].err = <<"A", "B", ErrText, ErrServiceNotRegistered>>

(***************************************************************************)
(* C17: each dependency obeys its own lifetime.  With Repo Singleton, Log  *)
(* Scoped and Svc Transient depending on both, every resolve of Svc from a *)
(* scope returns a Svc made for that call; all Svc values hold the same    *)
(* Repo, the root's; two Svc values hold the same Log exactly when they    *)
(* were resolved from the same scope, and it is that scope's Log.          *)
(***************************************************************************)
SvcCalls == {k \in DOMAIN built : built[k].ctor = "NewC"}

LifetimesMix ==
  /\ \A t \in Threads :
       (Returned(t) /\ req[t].svc = "C") =>
         \E k \in SvcCalls : k > req[t].n0 /\ req[t].val = IdOf(k)
  /\ \A k \in SvcCalls :
       /\ built[k].sc # 0
       /\ built[k].args[1] = Obj(services["A"].instance)
       /\ built[k].args[2] = Obj(scopedInst[built[k].sc]["B"])
  /\ \A j, k \in SvcCalls :
       /\ built[j].args[1] = built[k].args[1]
       /\ built[j].args[2] = built[k].args[2] <=> built[j].sc = built[k].sc

\* Svc was resolved twice from each of two scopes
TwoSvcInEachOfTwoScopes ==
  \A s \in 1..2 : Cardinality({k \in SvcCalls : built[k].sc = s}) = 2

(***************************************************************************)
(* C18: Scope.Reset leaves the scope's cache empty; a resolve of a         *)
(* factory-backed Scoped binding that finds the scope's cache without an   *)
(* entry for it, as the first one after the Reset does, calls the factory  *)
(* and returns what this call made, an instance no earlier resolve has     *)
(* returned, and caches it; a resolve that finds an entry returns the      *)
(* entry and calls no factory of the binding.                              *)
(***************************************************************************)
ScopedDone(t) ==
  /\ req[t].st = "run"
  /\ req'[t].st = "done"
  /\ req'[t].err = NoErr
  /\ req'[t].sc # 0
  /\ FactoryBacked(AskedDef(t))
  /\ AskedDef(t).scope = Scoped

ScopeResetRebuilds ==
  [][/\ \A s \in ScopeIds :
          ScopeReset(s) => \A T \in Types : scopedInst'[s][T] = Nil
     /\ \A t \in Threads :
          ScopedDone(t) =>
            LET r == req'[t]
                was == scopedInst[r.sc][r.svc]
            IN /\ scopedInst'[r.sc][r.svc] = r.val
               /\ was = Nil =>
                    \E k \in (r.n0 + 1)..Len(built') :
                      /\ r.val = IdOf(k)
                      /\ built'[k].svc = r.svc
                      /\ built'[k].sc = r.sc
               /\ was # Nil =>
                    /\ r.val = was
                    /\ \A k \in (r.n0 + 1)..Len(built') : built'[k].svc # r.svc]_vars

\* a scope's factory-backed Scoped binding was built a second time for the
\* scope, and the resolve returned the second instance
RebuiltAfterReset ==
  \E t \in Threads :
    /\ Returned(t)
    /\ req[t].sc # 0
    /\ AskedDef(t).scope = Scoped
    /\ scopedInst[req[t].sc][req[t].svc] = req[t].val
    /\ \E j, k \in BuiltBy(req[t].svc, req[t].g) :
         /\ j < k
         /\ built[j].sc = req[t].sc
         /\ built[k].sc = req[t].sc
         /\ req[t].val = IdOf(k)

(***************************************************************************)
(* C19: Scope.Reset changes the cache of its scope only: both registration *)
(* tables, the singleton slot of every binding, the caches of the other    *)
(* scopes and the instances made so far are as before; and a resolve of a  *)
(* Singleton binding whose slot is filled returns the instance in the      *)
(* slot, so it returns after the Reset what it returned before.            *)
(***************************************************************************)
SingletonDone(t) ==
  /\ req[t].st = "run"
  /\ req'[t].st = "done"
  /\ req'[t].err = NoErr
  /\ AskedDef(t).scope = Singleton
  /\ AskedDef(t).instance # Nil

ScopeResetFrame ==
  [][/\ \A s \in ScopeIds :
          ScopeReset(s) =>
            /\ UNCHANGED <<defs, gen, namedServices, nScopes, built>>
            /\ \A x \in ScopeIds \ {s} : scopedInst'[x] = scopedInst[x]
     /\ \A t \in Threads :
          SingletonDone(t) =>
            /\ req'[t].val = AskedDef(t).instance
            /\ UNCHANGED defs]_vars

\* one scope was just reset while another scope holds an instance and a
\* singleton slot is filled
ResetBesideOthers ==
  /\ last.op = "Scope.Reset"
  /\ \E T \in Types : FactoryBacked(services[T]) /\ services[T].instance # Nil
  /\ \E s, x \in 1..nScopes :
       /\ \A T \in Types : scopedInst[s][T] = Nil
       /\ \E T \in Types : scopedInst[x][T] # Nil

(***************************************************************************)
(* C20: a resolve of a pre-built binding that returns, from the root or    *)
(* from a scope, returns the registered value itself and calls no factory. *)
(***************************************************************************)
PrebuiltIsItself ==
  \A t \in Threads :
    (Returned(t) /\ req[t].name = "" /\ AskedDef(t).isInstance) =>
      /\ req[t].val = AskedDef(t).instance
      /\ Len(built) = req[t].n0

(***************************************************************************)
(* C21: ResolveAll for element type A stores a slice that begins with the  *)
(* default binding's value when that binding is pre-built, and holds after *)
(* it the value of every named binding of A exactly once; a factory-backed *)
(* default adds nothing, no factory is called, and the tables, the slots   *)
(* and the scope caches stay as they were.                                 *)
(***************************************************************************)
AllDone(t) ==
  /\ req'[t] # req[t]
  /\ req'[t].op = "ResolveAll"
  /\ req'[t].err = NoErr

ResolveAllContent ==
  [][\A t \in Threads :
       AllDone(t) =>
         LET es == req'[t].all
             d == services["A"]
         IN /\ Len(es) = Cardinality(NamedBindings("A"))
                            + (IF d.reg /\ d.isInstance THEN 1 ELSE 0)
            /\ (d.reg /\ d.isInstance) => es[1] = <<"", d.instance>>
            /\ \A n \in NamedBindings("A") :
                 Cardinality({i \in DOMAIN es :
                                es[i] = <<n, namedServices[n]["A"].instance>>}) = 1
            /\ UNCHANGED <<defs, gen, namedServices, scopedInst, built>>]_vars

\* ResolveAll gave the pre-built default and the values of both names
AllOfThree ==
  \E t \in Threads :
    /\ req[t].op = "ResolveAll"
    /\ Len(req[t].all) = 3
    /\ req[t].all[1] = <<"", services["A"].instance>>

(***************************************************************************)
(* C22: the default table and the named table are independent.  A          *)
(* registration call changes only the table it addresses and succeeds      *)
(* whenever it passes its own checks and its key is free in that table,    *)
(* whatever the other table holds; Resolve returns the default binding's   *)
(* own value (the pre-built one, the slot's, or one its factory made) and  *)
(* ResolveNamed returns the value registered under that name.              *)
(***************************************************************************)
ResolveDone(t) ==
  /\ req'[t] # req[t]
  /\ req'[t].st = "done"
  /\ req'[t].err = NoErr

TablesIndependent ==
  [][/\ RegStep =>
          /\ IF last'.op \in NamedOps THEN UNCHANGED defs ELSE UNCHANGED namedServices
          /\ (WellFormed(last') /\ ~KeyTaken(last')) => last'.err = NoErr
     /\ \A t \in Threads :
          ResolveDone(t) =>
            LET r == req'[t]
            IN /\ r.op = "Resolve" =>
                    \/ r.val = defs'[r.g][r.svc].instance
                    \/ \E k \in DOMAIN built' :
                         r.val = IdOf(k) /\ built'[k].svc = r.svc /\ built'[k].g = r.g
               /\ r.op = "ResolveNamed" =>
                    /\ r.val = namedServices[r.name][r.svc].instance
                    /\ services[r.svc].reg => r.val # services[r.svc].instance]_vars

\* A has a pre-built default binding and ResolveNamed returned the value
\* registered under the name
NamedBesideDefault ==
  \E t \in Threads :
    /\ Returned(t)
    /\ req[t].op = "ResolveNamed"
    /\ services["A"].reg
    /\ services["A"].isInstance
    /\ req[t].val = namedServices[req[t].name]["A"].instance

(***************************************************************************)
(* C23: named services and dependency injection.                           *)
(***************************************************************************)
\* the values held by the named table
NamedValues ==
  {namedServices[n][T].instance : n \in Names, T \in Types} \ {Nil}

SlotFilledOnce ==
  [][\A T \in Types :
       LET d == services[T]
           e == services'[T]
       IN (FactoryBacked(d) /\ gen' = gen) =>
            /\ d.instance # Nil => e.instance = d.instance
            /\ e.instance # Nil =>
                 /\ e.scope = Singleton
                 /\ \E k \in BuiltBy(T, gen) : e.instance = IdOf(k)]_vars

\* the slot of A is filled and a goroutine that made another instance of A
\* arrives at once.Do
SecondArrives ==
  /\ services["A"].instance # Nil
  /\ \E t \in Threads :
       /\ At(t, "once")
       /\ TopOf(t).svc = "A"
       /\ TopOf(t).val # services["A"].instance

(***************************************************************************)
(* C26: whenever a singleton slot is being written, the writing goroutine  *)
(* holds the store's lock exclusively (so that no read made under the      *)
(* shared lock can overlap the write).                                     *)
(***************************************************************************)
SlotWriteLocked ==
  \A T \in Types :
    services[T].writing # Nil =>
      \E t \in Threads : muW = t /\ At(t, "commit") /\ TopOf(t).svc = T

(***************************************************************************)
(* C27: the cycle tracker.                                                 *)
(***************************************************************************)
\* C27: at every moment a goroutine's tracker holds exactly the types of the
\* resolve calls it has entered and not yet left, each once (so every call,
\* failed or not, leaves the tracker as it found it), and a resolve fails
\* with circular-dependency only if a cycle of factory-backed bindings can be
\* reached from the requested type: never on a diamond
TrackerIsPath ==
  \A t \in Threads :
    /\ track[t] = {stack[t][i].svc : i \in DOMAIN stack[t]}
    /\ Cardinality(track[t]) = Len(stack[t])
    /\ (req[t].st = "done" /\ ErrorsIs(req[t].err, ErrResolveCircularDependency)) =>
         \E T \in ReachableFrom({req[t].svc}, req[t].g, Cardinality(Types)) :
           OnCycle(T, req[t].g)

\* C was built from A and from a B that was itself built from A
DiamondResolved ==
  /\ services["B"].ctor = "NewBA"
  /\ services["A"].ctor = "NewA"
  /\ \E k \in DOMAIN built : built[k].ctor = "NewC"
  /\ \E t \in Threads : Returned(t) /\ req[t].svc = "C"

(***************************************************************************)
(* C28: concurrent registrations for one key of one table.                 *)
(***************************************************************************)
\* the calls c and d address the same key of the same table
SameTarget(c, d) ==
  /\ CallKey(c) # "none"
  /\ CallKey(c) = CallKey(d)
  /\ (c.op \in NamedOps) = (d.op \in NamedOps)
  /\ c.op \in NamedOps => c.name = d.name

\* goroutine t made a registration call that passed its own checks, and the
\* call has returned
Registered(t) ==
  /\ req[t].st = "done"
  /\ req[t].call # NoLast
  /\ WellFormed(req[t].call)

\* the binding now stored under the target of call c
StoredFor(c) ==
  IF c.op \in NamedOps THEN namedServices[c.name][CallKey(c)] ELSE services[CallKey(c)]

ResetClearsCaches ==
  \A t \in Threads :
    (Returned(t) /\ req[t].g > 0) =>
      \A k \in MadeAt(req[t].val) : built[k].g = req[t].g

(***************************************************************************)
(* C31: lifetimes along two paths of one outermost resolve.  C is built    *)
(* from an A and from a B that was built, in the same outermost resolve,   *)
(* from an A.  If A is Transient its factory ran twice in that resolve and *)
(* the two occurrences are different instances; if A is Singleton or       *)
(* Scoped its factory ran at most once in it (not at all if A was cached   *)
(* before) and both occurrences are the same instance.                     *)
(***************************************************************************)
\* the pairs <<k, j>>: C was built at k from the B built at j, both in the
\* outermost resolve goroutine t is running or has last run
Diamonds(t) ==
  {p \in (DOMAIN built) \X (DOMAIN built) :
     /\ p[1] > req[t].n0 /\ p[2] > req[t].n0
     /\ built[p[1]].ctor = "NewC"
     /\ built[p[2]].ctor = "NewBA"
     /\ built[p[1]].args[2].id = IdOf(p[2])}

\* the invocations of A's factory in that resolve up to the building of C
MadeWithin(t, k) == {i \in BuiltBy("A", req[t].g) : i > req[t].n0 /\ i < k}

LifetimesAlongPaths ==
  \A t \in Threads : \A p \in Diamonds(t) :
    LET viaC == built[p[1]].args[1].id
        viaB == built[p[2]].args[1].id
        d == defs[req[t].g]["A"]
    IN FactoryBacked(d) =>
         IF d.scope = Transient
           THEN /\ viaC # viaB
                /\ Cardinality(MadeWithin(t, p[1])) = 2
                /\ {viaC, viaB} = {IdOf(i) : i \in MadeWithin(t, p[1])}
           ELSE /\ viaC = viaB
                /\ Cardinality(MadeWithin(t, p[1])) <= 1
                /\ \A i \in MadeWithin(t, p[1]) : viaC = IdOf(i)

\* a Singleton A was built once and reached C directly and through B
SingletonAlongTwoPaths ==
  \E t \in Threads : \E p \in Diamonds(t) :
    /\ services["A"].scope = Singleton
    /\ FactoryBacked(services["A"])
    /\ Cardinality(MadeWithin(t, p[1])) = 1

(***************************************************************************)
(* C32: Singleton A takes Singleton B.  Whenever A's slot is filled, the B *)
(* that was passed to the factory call which made the published A is the   *)
(* instance held in B's slot.                                              *)
(***************************************************************************)
SingletonGraphConsistent ==
  LET a == services["A"]
      b == services["B"]
  IN (/\ a.ctor = "NewAB" /\ a.scope = Singleton
      /\ FactoryBacked(b) /\ b.scope = Singleton
      /\ a.instance # Nil) =>
       \A k \in MadeAt(a.instance) : built[k].args[1].id = b.instance

(***************************************************************************)
(* C33: scope cache stability.  In a step that is no Scope.Reset, an entry *)
(* of a scope's cache that holds an instance keeps that instance (so that  *)
(* resolves of the type in the scope that do not overlap return the same   *)
(* instance, whatever runs beside them).                                   *)
(***************************************************************************)
ScopeCacheStable ==
  [][last'.op # "Scope.Reset" =>
       \A s \in ScopeIds : \A T \in Types :
         scopedInst[s][T] # Nil => scopedInst'[s][T] = scopedInst[s][T]]_vars

(***************************************************************************)
(* C34: captive dependency.  A is a Singleton whose factory takes the      *)
(* Scoped B.  Once A's slot is filled, the A in it was built in a resolve  *)
(* through some scope, from the B which that scope's factory call made; a  *)
(* resolve of A begun later, through whatever scope, returns that A; and a *)
(* resolve of B in any other scope returns a B that is not the one A       *)
(* holds.                                                                  *)
(***************************************************************************)
CaptiveDependency ==
  (/\ services["A"].ctor = "NewAB" /\ services["A"].scope = Singleton
   /\ FactoryBacked(services["B"]) /\ services["B"].scope = Scoped
   /\ services["A"].instance # Nil) =>
    \A k \in MadeAt(services["A"].instance) :
      /\ built[k].sc # 0
      /\ \E j \in BuiltBy("B", gen) :
           /\ j < k
           /\ built[j].sc = built[k].sc
           /\ built[k].args[1].id = IdOf(j)
      /\ \A t \in Threads :
           /\ (Returned(t) /\ req[t].svc = "A" /\ req[t].n0 >= k) =>
                req[t].val = services["A"].instance
           /\ (Returned(t) /\ req[t].svc = "B" /\ req[t].sc # built[k].sc) =>
                req[t].val # built[k].args[1].id

\* A was built through one scope and has been returned, at a later call,
\* through another one
CaptiveSeenFromOtherScope ==
  /\ services["A"].ctor = "NewAB" /\ services["A"].scope = Singleton
  /\ services["B"].scope = Scoped
  /\ services["A"].instance # Nil
  /\ \E k \in MadeAt(services["A"].instance) : \E t \in Threads :
       /\ Returned(t)
       /\ req[t].svc = "A"
       /\ req[t].n0 >= k
       /\ req[t].sc # 0
       /\ req[t].sc # built[k].sc


\* C35: while the binding of A is a factory-backed Singleton whose factory
\* takes a Scoped B, a finished Resolve of A on the root has failed with
\* ErrScopedOnRootContainer, leaving the slot empty, when the singleton slot
\* of A is empty, and has returned the slot's instance, which a scope built
\* before the call, when the slot is filled
SingletonOverScoped ==
  /\ services["A"].ctor = "NewAB"
  /\ services["A"].scope = Singleton
  /\ FactoryBacked(services["A"])
  /\ services["B"].reg
  /\ services["B"].scope = Scoped

RootOutcomeFollowsSlot ==
  \A t \in Threads :
    (SingletonOverScoped /\ req[t].st = "done" /\ req[t].op = "Resolve"
       /\ req[t].svc = "A" /\ req[t].sc = 0) =>
      IF services["A"].instance = Nil
        THEN /\ ErrorsIs(req[t].err, ErrScopedOnRootContainer)
             /\ BuiltBy("A", gen) = {}
        ELSE /\ req[t].err = NoErr
             /\ req[t].val = services["A"].instance
             /\ \A k \in MadeAt(services["A"].instance) :
                  k <= req[t].n0 /\ built[k].sc # 0

RootServedAfterScope ==
  \E t \in Threads :
    /\ SingletonOverScoped
    /\ Returned(t) /\ req[t].op = "Resolve" /\ req[t].svc = "A" /\ req[t].sc = 0
    /\ services["A"].instance # Nil
    /\ req[t].val = services["A"].instance


\* C36: a finished Resolve of C = NewC(A, B), registered Singleton or Scoped,
\* that a dependency made fail (B was missing, or a Scoped dependency met the
\* root) returned an error, called the factory of C not once and left the
\* singleton slot and the scope cache entry of C empty, while A, resolved
\* before the failing parameter B, stays in its singleton slot or in the
\* scope's cache; and a Resolve of C that began once A, B and C were all
\* registered, none of them Scoped on the root, has succeeded
\* thread t's Resolve of C has finished and no registration followed its start
FinishedC(t) ==
  /\ req[t].st = "done" /\ req[t].op = "Resolve" /\ req[t].svc = "C"
  /\ last = NoLast

DependencyFailed(t) ==
  /\ FinishedC(t)
  /\ services["C"].ctor = "NewC"
  /\ req[t].err # NoErr \/ ~services["B"].reg

Resolvable(sc) ==
  \A T \in {"A", "B", "C"} :
    services[T].reg /\ (sc = 0 => services[T].scope # Scoped)

FailedResolvePublishesNothing ==
  \A t \in Threads :
    /\ DependencyFailed(t) =>
         /\ req[t].err # NoErr
         /\ \A k \in BuiltBy("C", gen) : k <= req[t].n0
         /\ services["C"].scope = Singleton => services["C"].instance = Nil
         /\ (services["C"].scope = Scoped /\ req[t].sc # 0) =>
              scopedInst[req[t].sc]["C"] = Nil
         /\ (Len(req[t].err) > 0 /\ Head(req[t].err) = "B") =>
              /\ services["A"].scope = Singleton =>
                   /\ services["A"].instance # Nil
                   /\ MadeAt(services["A"].instance) \subseteq BuiltBy("A", gen)
              /\ services["A"].scope = Scoped =>
                   /\ req[t].sc # 0
                   /\ scopedInst[req[t].sc]["A"] # Nil
    /\ (FinishedC(t) /\ Resolvable(req[t].sc)) =>
         /\ req[t].err = NoErr
         /\ \E k \in BuiltBy("C", gen) : req[t].val = IdOf(k)

\* a retry succeeded: C was built in this call only, from an A that an
\* earlier, failed call had left cached
RetrySucceeded ==
  \E t \in Threads :
    /\ Returned(t) /\ req[t].op = "Resolve" /\ req[t].svc = "C"
    /\ \E k \in BuiltBy("C", gen) :
         /\ BuiltBy("C", gen) = {k}
         /\ k > req[t].n0
         /\ req[t].val = IdOf(k)
         /\ \E j \in BuiltBy("A", gen) :
              j <= req[t].n0 /\ built[k].args[1].id = IdOf(j)


\* C37: the root serves pre-built bindings registered as Scoped wherever it
\* reads them without resolve.  No step of a call on the root changes a scope
\* cache; a ResolveNamed that ends returns the value stored under the name,
\* whatever its lifetime; a ResolveAll that ends holds the pre-built default
\* first, Scoped or not, and the value of every name; and a Resolve of a
\* consumer that ends has succeeded and handed its factory a collected slice
\* or map holding the value of every name
ScopedNames == {n \in Names : namedServices[n]["A"].reg
                                /\ namedServices[n]["A"].scope = Scoped}

RootCallEnds(t, op) ==
  /\ req'[t] # req[t]
  /\ req'[t].st = "done"
  /\ req'[t].op = op
  /\ req'[t].sc = 0

NamedIgnoreLifetime ==
  [][\A t \in Threads :
       /\ ((req'[t] # req[t] \/ stack'[t] # stack[t]) /\ req'[t].sc = 0) =>
            scopedInst' = scopedInst
       /\ (RootCallEnds(t, "ResolveNamed") /\ req'[t].name \in NamedBindings("A")) =>
            /\ req'[t].err = NoErr
            /\ req'[t].val = namedServices[req'[t].name]["A"].instance
       /\ RootCallEnds(t, "ResolveAll") =>
            /\ req'[t].err = NoErr
            /\ \A n \in NamedBindings("A") :
                 Count(req'[t].all, namedServices[n]["A"].instance) = 1
            /\ (services["A"].reg /\ services["A"].isInstance) =>
                 req'[t].all[1] = <<"", services["A"].instance>>
            /\ Len(req'[t].all) = Cardinality(NamedBindings("A"))
                 + (IF services["A"].reg /\ services["A"].isInstance THEN 1 ELSE 0)
       /\ (RootCallEnds(t, "Resolve") /\ req'[t].svc = "C" /\ services["C"].reg
             /\ Collected(CtorIn(services["C"].ctor)[1])) =>
            /\ req'[t].err = NoErr
            /\ \E k \in DOMAIN built' :
                 /\ req'[t].val = IdOf(k)
                 /\ k > req'[t].n0
                 /\ \A n \in NamedBindings("A") :
                      Count(built'[k].args[1].elems,
                            namedServices[n]["A"].instance) = 1]_vars

\* a Resolve on the root has handed a factory a collected slice or map that
\* holds a named value registered as Scoped
ScopedNamedServed ==
  \E t \in Threads : \E n \in ScopedNames :
    /\ Returned(t) /\ req[t].op = "Resolve" /\ req[t].sc = 0
    /\ \E k \in MadeAt(req[t].val) :
         /\ k > req[t].n0
         /\ Count(built[k].args[1].elems, namedServices[n]["A"].instance) = 1

(***************************************************************************)
(* C38: on a graph in which no binding reachable from the requested type   *)
(* is Scoped, the outcome of a Resolve is one function of the registration *)
(* state and of the singleton slots filled before the call, in which the   *)
(* place of the call (the root or a scope) does not occur: the error, the  *)
(* factories invoked and their order, the slots filled afterwards and the  *)
(* identity of the value are the same from the root and from every scope,  *)
(* and no scope cache entry of the graph is ever filled.                   *)
(***************************************************************************)
\* the types reachable from T: its factory's parameters, and theirs
RECURSIVE Closure(_, _)
Closure(S, n) ==
  IF n = 0 THEN S
  ELSE Closure(S \cup UNION {{CtorIn(services[U].ctor)[i] :
                                i \in DOMAIN CtorIn(services[U].ctor)} :
                              U \in {V \in S : FactoryBacked(services[V])}}, n - 1)

NoScopedBelow(T) ==
  \A U \in Closure({T}, Cardinality(Types)) \cap Types : services[U].scope # Scoped

\* the outcome of resolving T with the slots in `filled` holding an instance
RECURSIVE ResolveOutcome(_, _, _)
RECURSIVE ResolveArgsOutcome(_, _, _, _, _)
ResolveArgsOutcome(T, i, filled, trk, calls) ==
  LET ins == CtorIn(services[T].ctor)
  IN IF i > Len(ins) THEN [err |-> NoErr, filled |-> filled, calls |-> calls]
     ELSE LET r == ResolveOutcome(ins[i], filled, trk)
          IN IF r.err # NoErr
               THEN [err |-> Wrap(ins[i], r.err), filled |-> r.filled,
                     calls |-> calls \o r.calls]
               ELSE ResolveArgsOutcome(T, i + 1, r.filled, trk, calls \o r.calls)

ResolveOutcome(T, filled, trk) ==
  LET d == services[T]
  IN IF ~d.reg
       THEN [err |-> Wrap(ErrText, Sentinel(ErrServiceNotRegistered)),
             filled |-> filled, calls |-> <<>>]
     ELSE IF T \in trk
       THEN [err |-> Wrap(ErrText, Sentinel(ErrResolveCircularDependency)),
             filled |-> filled, calls |-> <<>>]
     ELSE IF d.isInstance \/ (d.scope = Singleton /\ T \in filled)
       THEN [err |-> NoErr, filled |-> filled, calls |-> <<>>]
     ELSE LET a == ResolveArgsOutcome(T, 1, filled, trk \cup {T}, <<>>)
          IN IF a.err # NoErr THEN a
             ELSE [err |-> NoErr,
                   filled |-> IF d.scope = Singleton THEN a.filled \cup {T}
                                                     ELSE a.filled,
                   calls |-> Append(a.calls, d.ctor)]

\* the factory-backed bindings whose slot holds an instance made by call n or before
FilledBy(n) ==
  {T \in Types : /\ FactoryBacked(services[T])
                 /\ services[T].instance # Nil
                 /\ \A k \in MadeAt(services[T].instance) : k <= n}

RootAndScopeAgree ==
  \A t \in Threads :
    (req[t].st = "done" /\ req[t].op = "Resolve" /\ NoScopedBelow(req[t].svc)) =>
      LET r == req[t]
          d == services[r.svc]
          o == ResolveOutcome(r.svc, FilledBy(r.n0), {})
      IN /\ r.err = o.err
         /\ [k \in 1..(Len(built) - r.n0) |-> built[r.n0 + k].ctor] = o.calls
         /\ FilledBy(Len(built)) = o.filled
         /\ r.err = NoErr =>
              r.val = IF d.isInstance \/ d.scope = Singleton THEN d.instance
                      ELSE IdOf(Len(built))
         /\ \A s \in ScopeIds :
              \A U \in Closure({r.svc}, Cardinality(Types)) \cap Types :
                scopedInst[s][U] = Nil

\* a scope resolved C, filling the slot of the Singleton A and calling the
\* factory of the Transient B
ScopeResolvedLikeRoot ==
  \E t \in Threads :
    /\ Returned(t) /\ req[t].op = "Resolve" /\ req[t].svc = "C" /\ req[t].sc # 0
    /\ NoScopedBelow("C")
    /\ services["A"].scope = Singleton /\ FactoryBacked(services["A"])
    /\ services["B"].scope = Transient
    /\ "A" \in FilledBy(Len(built)) \ FilledBy(req[t].n0)

====
